---- MODULE Spec2Model ----
(***************************************************************************)
(* Model of the manufacturing streaming-demo data generators               *)
(* (src/data-generator/src/data_generators.py).                            *)
(*                                                                         *)
(* Numbers.  Python floats are modelled as fixed-point integers with three *)
(* decimals (1.0 is 1000); the result of a multiplication or division is   *)
(* rounded to the nearest grid point.  Probabilities and the raw output of *)
(* random.random() use the same scale (0..999 stands for [0, 1)).          *)
(*                                                                         *)
(* Randomness.  Every library draw is a function of one raw value: a raw   *)
(* uniform value u in 0..999 for the `random` module, a raw number of      *)
(* standard deviations z for np.random.normal, a raw multiple of the mean  *)
(* for np.random.exponential.  An unseeded generator takes its raw values  *)
(* nondeterministically from small sets; a seeded one takes them from a    *)
(* deterministic congruential generator started from the seed.             *)
(***************************************************************************)
EXTENDS Integers, Sequences, FiniteSets, TLC

\* ------------------------------------------------------------- bounds
\* Most records generated by one process (a run stops asking for batches then).
MaxRecords == 2
\* Largest batch size requested from generate_batch.
MaxBatch == 2
\* Largest |z| an unseeded np.random.normal draw takes (standard deviations).
MaxSigma == 4
\* Largest random seed a seeded run is constructed with.
MaxSeed == 3

\* ------------------------------------------------------- fixed point
SCALE == 10 * 100

None == "None"

\* random_seed is None (seeds are naturals).
NoSeed == 0 - 1

Max(a, b) == IF a >= b THEN a ELSE b

Min(a, b) == IF a <= b THEN a ELSE b

\* n / d rounded to the nearest integer (d > 0).
RoundDiv(n, d) == (2 * n + d) \div (2 * d)

\* a * b of two fixed-point numbers.
MulFix(a, b) == RoundDiv(a * b, SCALE)

\* 10^k, k >= 0
RECURSIVE Pow10(_)
Pow10(k) == IF k <= 0 THEN 1 ELSE 10 * Pow10(k - 1)

\* Python's round(x, ndigits) on a value with three decimals: the nearest
\* multiple of 10^-ndigits, a tie going to the even multiple.
PyRound(x, ndigits) ==
    IF ndigits >= 3 THEN x
    ELSE LET step == Pow10(3 - ndigits)
             q == x \div step
             r == x % step
         IN  IF 2 * r < step THEN q * step
             ELSE IF 2 * r > step THEN (q + 1) * step
             ELSE IF q % 2 = 0 THEN q * step ELSE (q + 1) * step

\* ------------------------------------------------- the random sources
\* Raw values an unseeded draw may take.
RawU == {0, 999}

RawZ == {-MaxSigma, 0, MaxSigma}

RawE == {0, SCALE, 20 * SCALE}

\* random.random() < p
RandomBelow(u, p) == u < p

\* random.uniform(a, b) = a + (b - a) * random()
Uniform(a, b, u) == a + RoundDiv((b - a) * u, SCALE)

\* random.choice(seq)
Choice(seq, u) == seq[1 + ((u * Len(seq)) \div SCALE)]

\* random.randint(a, b), both ends included
Randint(a, b, u) == a + ((u * (b - a + 1)) \div SCALE)

\* np.random.normal(0, variance)
Normal(variance, z) == variance * z

\* np.random.exponential(mean)
Exponential(mean, e) == MulFix(mean, e)

\* The seeded generators: one congruential step, and the raw values read off
\* a generator state.
Lcg(s) == (s * 75 + 74) % 65537

RECURSIVE LcgN(_, _)
LcgN(s, n) == IF n = 0 THEN s ELSE LcgN(Lcg(s), n - 1)

SeedPy(seed) == Lcg(seed + 1)

SeedNp(seed) == Lcg(Lcg(seed + 1) + 7)

RawUOf(s) == s % SCALE

RawZOf(s) == (s % (2 * MaxSigma + 1)) - MaxSigma

RawEOf(s) == s % (4 * SCALE)

\* Only random.seed is called: np.random stays unseeded.
SeedRngRandomOnly(random_seed) ==
    IF random_seed = NoSeed
    THEN [py_seeded |-> FALSE, np_seeded |-> FALSE, py |-> 0, np |-> 0]
    ELSE [py_seeded |-> TRUE, np_seeded |-> FALSE,
          py |-> SeedPy(random_seed), np |-> 0]

\* BaseDataGenerator.__init__: the state of the two random sources, `random`
\* (py) and np.random (np), each seeded when random_seed is not None.
SeedRng(random_seed) ==
    IF random_seed = NoSeed
    THEN [py_seeded |-> FALSE, np_seeded |-> FALSE, py |-> 0, np |-> 0]
    ELSE [py_seeded |-> TRUE, np_seeded |-> TRUE,
          py |-> SeedPy(random_seed), np |-> SeedNp(random_seed)]

\* The next k raw values of the `random` module: every tuple over RawU for an
\* unseeded source, the one tuple the generator state gives for a seeded one.
PyDraws(g, k) ==
    IF g.py_seeded THEN {[i \in 1..k |-> RawUOf(LcgN(g.py, i))]}
    ELSE [1..k -> RawU]

NpNormals(g, k) ==
    IF g.np_seeded THEN {[i \in 1..k |-> RawZOf(LcgN(g.np, i))]}
    ELSE [1..k -> RawZ]

NpExponentials(g, k) ==
    IF g.np_seeded THEN {[i \in 1..k |-> RawEOf(LcgN(g.np, i))]}
    ELSE [1..k -> RawE]

\* The five raw values of one _update_equipment_state call.  An unseeded source
\* gives the three signal trends the same raw value (the tuples <<a, a, a, d, m>>),
\* which keeps the walk of the trends small; the degradation draw d and the
\* maintenance draw m are free.
UpdateDraws(g) ==
    IF g.py_seeded THEN PyDraws(g, 5)
    ELSE {<<a, a, a, d, m>> : a \in RawU, d \in RawU, m \in RawU}

\* The sources after nPy draws from `random` and nNp draws from np.random.
Advance(g, nPy, nNp) ==
    [g EXCEPT !.py = IF g.py_seeded THEN LcgN(g.py, nPy) ELSE 0,
              !.np = IF g.np_seeded THEN LcgN(g.np, nNp) ELSE 0]

\* ------------------------------------------------------ configuration
Equipment(id, type, line, maxT, maxP, maxS) ==
    [equipment_id |-> id, equipment_type |-> type, production_line_id |-> line,
     max_temperature |-> maxT, max_pressure |-> maxP, max_speed |-> maxS]

EQ1 == Equipment("EQ1", "PRESS", "LINE1", 100000, 120000, 1000000)

EQ2 == Equipment("EQ2", "CHILLER", "LINE9", 10000, 2570, 999960)

EQ3 == Equipment("EQ3", "SCANNER", "LINE2", 12505, 50000, 60000)

EquipmentConfigs == {<<EQ1>>, <<EQ2, EQ3>>}

Signal(variance, prob, magnitude, lo, hi) ==
    [variance |-> variance, spike_probability |-> prob,
     spike_magnitude |-> magnitude, base_range |-> <<lo, hi>>]

Quiet(lo, hi) == Signal(0, 0, 0, lo, hi)

QuietSensors ==
    [temperature |-> Quiet(0, 0), pressure |-> Quiet(0, 0),
     vibration |-> Quiet(100, 100), speed_rpm |-> Quiet(0, 0),
     efficiency |-> Quiet(85000, 85000),
     power_consumption |-> Quiet(50000, 50000)]

\* Sensor parameter sets: each makes some signals noisy and spiky beyond every
\* clamp, and leaves the others without noise.
SensorConfigs ==
    { [QuietSensors EXCEPT !.temperature = Signal(50000, 500, 30000, 0, 0)],
      [QuietSensors EXCEPT !.pressure = Signal(50000, 500, 40000, 0, 0)],
      [QuietSensors EXCEPT !.speed_rpm = Signal(200000, 500, 100000, 0, 0)],
      [QuietSensors EXCEPT !.efficiency = Signal(30000, 0, 0, 20000, 120000),
                           !.vibration = Signal(0, 500, 700, 100, 100)] }

\* ------------------------------------------------ sensor simulation
\* BaseDataGenerator._add_noise
AddNoise(value, variance, z) == value + Normal(variance, z)

\* BaseDataGenerator._simulate_spike: u decides the spike, c its direction.
SimulateSpike(base_value, spike_prob, spike_magnitude, u, c) ==
    IF RandomBelow(u, spike_prob)
    THEN base_value + (Choice(<<-1, 1>>, c) * spike_magnitude)
    ELSE base_value

\* Draws _simulate_spike takes from `random`.
SpikeDraws(spike_prob, u) == IF RandomBelow(u, spike_prob) THEN 2 ELSE 1

\* The base tables, in whole units.
GetBaseTemperature(equipment_type) ==
    CASE equipment_type = "PRESS" -> 45
      [] equipment_type = "ROBOT" -> 35
      [] equipment_type = "CONVEYOR" -> 25
      [] equipment_type = "WELDER" -> 55
      [] equipment_type = "DRILL" -> 40
      [] equipment_type = "SCANNER" -> 22
      [] OTHER -> 30

GetBasePressure(equipment_type) ==
    CASE equipment_type = "PRESS" -> 80
      [] equipment_type = "ROBOT" -> 45
      [] equipment_type = "CONVEYOR" -> 15
      [] equipment_type = "WELDER" -> 25
      [] equipment_type = "DRILL" -> 60
      [] equipment_type = "SCANNER" -> 5
      [] OTHER -> 20

GetBaseSpeed(equipment_type) ==
    CASE equipment_type = "PRESS" -> 800
      [] equipment_type = "ROBOT" -> 1500
      [] equipment_type = "CONVEYOR" -> 300
      [] equipment_type = "WELDER" -> 600
      [] equipment_type = "DRILL" -> 2000
      [] equipment_type = "SCANNER" -> 50
      [] OTHER -> 500

\* The upper clamp left out.
ClampTemperatureFloorOnly(max_temp, temp) == Max(15 * SCALE, temp)

\* The clamp of _simulate_temperature: max(15, min(max_temp * 1.2, temp)).
ClampTemperature(max_temp, temp) ==
    Max(15 * SCALE, Min(MulFix(max_temp, 1200), temp))

\* SensorDataGenerator._simulate_temperature (base_temp in whole degrees)
SimulateTemperature(base_temp, max_temp, state, config, z, u, c) ==
    LET trended == (base_temp * SCALE) + state.temperature_trend
        noisy == AddNoise(trended, config.variance, z)
        spiked == SimulateSpike(noisy, config.spike_probability,
                                config.spike_magnitude, u, c)
    IN  ClampTemperature(max_temp, spiked)

\* The clamp of _simulate_pressure: max(0, min(max_pressure * 1.1, pressure)).
ClampPressure(max_pressure, pressure) ==
    Max(0, Min(MulFix(max_pressure, 1100), pressure))

\* SensorDataGenerator._simulate_pressure
SimulatePressure(base_pressure, max_pressure, state, config, z, u, c) ==
    LET trended == (base_pressure * SCALE) + state.pressure_trend
        noisy == AddNoise(trended, config.variance, z)
        spiked == SimulateSpike(noisy, config.spike_probability,
                                config.spike_magnitude, u, c)
    IN  ClampPressure(max_pressure, spiked)

\* SensorDataGenerator._simulate_vibration: b is the base draw.
SimulateVibration(state, config, b, z, u, c) ==
    LET base == Uniform(config.base_range[1], config.base_range[2], b)
        trended == base + state.vibration_trend
        noisy == AddNoise(trended, config.variance, z)
        spiked == SimulateSpike(noisy, config.spike_probability,
                                config.spike_magnitude, u, c)
    IN  Max(0, spiked)

\* The upper clamp left out.
ClampSpeedFloorOnly(max_speed, speed) == Max(0, speed)

\* The clamp of _simulate_speed: max(0, min(max_speed, speed)).
ClampSpeed(max_speed, speed) == Max(0, Min(max_speed, speed))

\* SensorDataGenerator._simulate_speed (base_speed in whole rpm)
SimulateSpeed(base_speed, max_speed, state, config, b, z, u, c) ==
    LET varied == base_speed * Uniform(800, 1200, b)
        noisy == AddNoise(varied, config.variance, z)
        spiked == SimulateSpike(noisy, config.spike_probability,
                                config.spike_magnitude, u, c)
    IN  ClampSpeed(max_speed, spiked)

\* The upper clamp left out.
ClampEfficiencyFloorOnly(efficiency) == Max(30 * SCALE, efficiency)

\* The clamp of _simulate_efficiency: max(30, min(100, efficiency)).
ClampEfficiency(efficiency) == Max(30 * SCALE, Min(100 * SCALE, efficiency))

\* SensorDataGenerator._simulate_efficiency
SimulateEfficiency(state, config, b, z) ==
    LET base == Uniform(config.base_range[1], config.base_range[2], b)
        degraded == base - state.efficiency_degradation
        noisy == AddNoise(degraded, config.variance, z)
    IN  ClampEfficiency(noisy)

\* SensorDataGenerator._simulate_power_consumption
SimulatePowerConsumption(temperature, speed, efficiency, config, b, z) ==
    LET base_power == Uniform(config.base_range[1], config.base_range[2], b)
        temp_factor == SCALE + RoundDiv(temperature - (30 * SCALE), 100)
        speed_factor == SCALE + RoundDiv(speed - (500 * SCALE), 2000)
        efficiency_factor == (2 * SCALE) - RoundDiv(efficiency, 100)
        power == MulFix(MulFix(MulFix(base_power, temp_factor), speed_factor),
                        efficiency_factor)
        noisy == AddNoise(power, config.variance, z)
    IN  Max(SCALE, noisy)

\* Both limits have to be exceeded.
CriticalBoth(temperature, pressure, max_temp, max_pressure) ==
    /\ temperature > MulFix(max_temp, 950)
    /\ pressure > MulFix(max_pressure, 950)

\* The two conditions of _determine_status.
Critical(temperature, pressure, max_temp, max_pressure) ==
    \/ temperature > MulFix(max_temp, 950)
    \/ pressure > MulFix(max_pressure, 950)

Warning(temperature, pressure, vibration, max_temp, max_pressure) ==
    \/ temperature > MulFix(max_temp, 850)
    \/ pressure > MulFix(max_pressure, 850)
    \/ vibration > 700

\* The "random downtime" tail of _determine_status, reading r from index k.
RandomDowntime(r, k) ==
    IF RandomBelow(r[k], 5)
    THEN [status |-> Choice(<<"STOPPED", "MAINTENANCE">>, r[k + 1]), n |-> k + 1]
    ELSE [status |-> "RUNNING", n |-> k]

\* SensorDataGenerator._determine_status: the status and the number n of draws
\* taken from the raw values r.
DetermineStatus(temperature, pressure, vibration, max_temp, max_pressure, r) ==
    IF Critical(temperature, pressure, max_temp, max_pressure)
    THEN [status |-> Choice(<<"ERROR", "MAINTENANCE">>, r[1]), n |-> 1]
    ELSE IF Warning(temperature, pressure, vibration, max_temp, max_pressure)
         THEN IF RandomBelow(r[1], 100)
              THEN [status |-> "MAINTENANCE", n |-> 1]
              ELSE RandomDowntime(r, 2)
         ELSE RandomDowntime(r, 1)

\* A symmetric step, as the other trends take: random.uniform(-0.001, 0.001).
DegradationStepSymmetric(u) == Uniform(-1, 1, u)

\* The increment of efficiency_degradation: random.uniform(0, 0.001).
DegradationStep(u) == Uniform(0, 1, u)

\* The reset leaves efficiency_degradation as it is.
UpdateEquipmentStateKeepsDegradation(state, r, t) ==
    LET drifted ==
            [state EXCEPT
                !.temperature_trend = @ + Uniform(-100, 100, r[1]),
                !.pressure_trend = @ + Uniform(-100, 100, r[2]),
                !.vibration_trend = @ + Uniform(-10, 10, r[3]),
                !.efficiency_degradation = @ + DegradationStep(r[4])]
    IN  IF RandomBelow(r[5], 1)
        THEN [drifted EXCEPT !.temperature_trend = 0,
                             !.pressure_trend = 0,
                             !.vibration_trend = 0,
                             !.last_maintenance = t]
        ELSE drifted

\* SensorDataGenerator._update_equipment_state on one equipment's state, at
\* clock reading t (datetime.now()).
UpdateEquipmentState(state, r, t) ==
    LET drifted ==
            [state EXCEPT
                !.temperature_trend = @ + Uniform(-100, 100, r[1]),
                !.pressure_trend = @ + Uniform(-100, 100, r[2]),
                !.vibration_trend = @ + Uniform(-10, 10, r[3]),
                !.efficiency_degradation = @ + DegradationStep(r[4])]
    IN  IF RandomBelow(r[5], 1)
        THEN [drifted EXCEPT !.temperature_trend = 0,
                             !.pressure_trend = 0,
                             !.vibration_trend = 0,
                             !.efficiency_degradation = 0,
                             !.last_maintenance = t]
        ELSE drifted

\* The record _generate_sensor_reading returns, from its local values l.
SensorRecord(l, t) ==
    [timestamp |-> t,
     equipment_id |-> l.equipment.equipment_id,
     sensor_type |-> <<l.equipment.equipment_type, "_SENSOR">>,
     temperature |-> PyRound(l.temperature, 2),
     pressure |-> PyRound(l.pressure, 2),
     vibration |-> PyRound(l.vibration, 3),
     speed_rpm |-> PyRound(l.speed_rpm, 1),
     power_consumption |-> PyRound(l.power_consumption, 2),
     efficiency_percent |-> PyRound(l.efficiency, 1),
     status |-> l.status]

\* ------------------------------------------------------- wall clock
\* The clock counts seconds from a midnight; datetime.now().hour.
HourOf(t) == (t \div (60 * 60)) % 24

\* The day shift closed at its upper end: 6 <= hour <= 14.
GetCurrentShiftClosed(hour) ==
    IF 6 <= hour /\ hour <= 14 THEN "DAY_SHIFT"
    ELSE IF 14 <= hour /\ hour < 22 THEN "AFTERNOON_SHIFT"
    ELSE "NIGHT_SHIFT"

\* BaseDataGenerator._get_current_shift, at hour `hour`.
GetCurrentShift(hour) ==
    IF 6 <= hour /\ hour < 14 THEN "DAY_SHIFT"
    ELSE IF 14 <= hour /\ hour < 22 THEN "AFTERNOON_SHIFT"
    ELSE "NIGHT_SHIFT"

\* BaseDataGenerator._generate_batch_id: the date and the four digits.
GenerateBatchId(t, u) == <<"BATCH", t \div (24 * 60 * 60), Randint(1000, 9999, u)>>

\* ------------------------------------------------ production simulation
\* The 100 weighted entries of _determine_event_type, in list order.
Events ==
    [k \in 1..100 |->
        IF k <= 85 THEN "PRODUCTION"
        ELSE IF k <= 90 THEN "CHANGEOVER"
        ELSE IF k <= 93 THEN "MAINTENANCE"
        ELSE IF k <= 95 THEN "PLANNED_MAINTENANCE"
        ELSE IF k <= 98 THEN "QUALITY_CHECK"
        ELSE "SETUP"]

\* ProductionDataGenerator._determine_event_type
DetermineEventType(u) == Choice(Events, u)

\* ProductionDataGenerator._get_line_for_equipment
GetLineForEquipment(equipment, line_config) ==
    LET matching == {k \in 1..Len(line_config) :
                        line_config[k].line_id = equipment.production_line_id}
    IN  IF matching # {}
        THEN line_config[CHOOSE k \in matching : \A m \in matching : k <= m]
        ELSE line_config[1]

\* The operators of a shift, in configuration order.
ShiftOperators(operator_config, shift) ==
    SelectSeq(operator_config, LAMBDA op : op.shift = shift)

\* The operator chosen among all configured operators.
GetCurrentOperatorAnyShift(operator_config, hour, u) ==
    Choice(operator_config, u)

\* ProductionDataGenerator._get_current_operator
GetCurrentOperator(operator_config, hour, u) ==
    LET shift_operators == ShiftOperators(operator_config, GetCurrentShift(hour))
    IN  IF shift_operators # <<>> THEN Choice(shift_operators, u)
        ELSE operator_config[1]

\* Draws _get_current_operator takes from `random`.
OperatorDraws(operator_config, hour) ==
    IF ShiftOperators(operator_config, GetCurrentShift(hour)) # <<>> THEN 1 ELSE 0

\* ProductionDataGenerator._generate_cycle_time
GenerateCycleTime(equipment_type, config, z) ==
    LET factors == config.cycle_time.equipment_factors
        factor == IF equipment_type \in DOMAIN factors
                  THEN factors[equipment_type] ELSE SCALE
        cycle_time == MulFix(config.cycle_time.base_seconds, factor)
    IN  Max(5 * SCALE, AddNoise(cycle_time, config.cycle_time.variance, z))

\* ProductionDataGenerator._generate_production_volume: <<units, planned>>
GenerateProductionVolume(config, u, v) ==
    LET volume_range == config.production_volume.units_per_cycle
        units == Randint(volume_range[1], volume_range[2], u)
    IN  <<units, units + Randint(0, 2, v)>>

\* One pass of the loop of _generate_reject_count: the count after the trial.
RejectTrial(rejects, reject_prob, u) ==
    IF RandomBelow(u, reject_prob) THEN rejects + 1 ELSE rejects

\* The loop of _generate_reject_count, `for _ in range(units_produced)`: whether
\* a pass is left for the local values l.
RejectLoopOverPlanned(l) == l.trial < l.planned_units

RejectLoopRuns(l) == l.trial < l.units_produced

\* ProductionDataGenerator._generate_downtime
GenerateDowntime(config, e) ==
    LET duration == Exponential(config.downtime.average_duration_minutes, e)
    IN  Min(duration, config.downtime.max_duration_minutes)

\* The record _generate_production_event returns, from its local values l.
ProductionRecord(l, t, u) ==
    [timestamp |-> t,
     equipment_id |-> l.equipment.equipment_id,
     line_id |-> l.line.line_id,
     product_id |-> l.product.product_id,
     event_type |-> l.event_type,
     units_produced |-> l.units_produced,
     planned_units |-> l.planned_units,
     cycle_time_seconds |-> PyRound(l.cycle_time, 1),
     downtime_minutes |-> PyRound(l.downtime_minutes, 1),
     reject_count |-> l.reject_count,
     operator_id |-> l.operator.operator_id,
     batch_id |-> GenerateBatchId(t, u)]

\* --------------------------------------------------- quality simulation
\* The index of the last "." of a string given as its characters, 0 if none.
LastDot(chars) ==
    LET dots == {k \in 1..Len(chars) : chars[k] = "."}
    IN  IF dots = {} THEN 0 ELSE CHOOSE k \in dots : \A m \in dots : m <= k

\* len(str(precision).split('.')[-1]), str(precision) given as its characters.
PrecisionDigits(chars) == Len(chars) - LastDot(chars)

\* test_passes = random.random() > failure_prob
TestPasses(u, failure_prob) == u > failure_prob

\* The measurement of a passing test, before rounding.
PassingMeasurement(spec_range, u) == Uniform(spec_range[1], spec_range[2], u)

\* The distance from the bound drawn from [0, 2.0].
FailingMeasurementFromBound(spec_range, s, u) ==
    IF RandomBelow(s, 500)
    THEN spec_range[1] - Uniform(0, 2000, u)
    ELSE spec_range[2] + Uniform(0, 2000, u)

\* The measurement of a failing test, before rounding: s picks the side, u
\* the distance from the bound.
FailingMeasurement(spec_range, s, u) ==
    IF RandomBelow(s, 500)
    THEN spec_range[1] - Uniform(100, 2000, u)
    ELSE spec_range[2] + Uniform(100, 2000, u)

\* The rounding of _generate_quality_test.
RoundMeasurement(measurement, precision) ==
    PyRound(measurement, PrecisionDigits(precision))

\* The pass/fail part of _generate_quality_test: r are the raw values, n the
\* number of them taken.
QualityOutcome(test, defect_types, r) ==
    IF TestPasses(r[1], test.failure_probability)
    THEN [test_passes |-> TRUE,
          measurement |-> PassingMeasurement(test.specification_range, r[2]),
          defect_type |-> None, n |-> 2]
    ELSE [test_passes |-> FALSE,
          measurement |-> FailingMeasurement(test.specification_range, r[2], r[3]),
          defect_type |-> Choice(defect_types, r[4]), n |-> 4]

\* The record _generate_quality_test returns.
QualityRecord(l, o, t, u, v) ==
    [timestamp |-> t,
     equipment_id |-> l.equipment.equipment_id,
     product_id |-> l.product.product_id,
     test_type |-> l.test.test_type,
     measurement_value |-> RoundMeasurement(o.measurement,
                                            l.test.measurement_precision),
     specification_min |-> l.test.specification_range[1],
     specification_max |-> l.test.specification_range[2],
     is_within_spec |-> o.test_passes,
     defect_type |-> o.defect_type,
     inspector_id |-> l.inspector.inspector_id,
     batch_id |-> GenerateBatchId(t, u),
     sample_size |-> Randint(1, 5, v)]

\* ------------------------------------------- production/quality config
ProductionEvents(lo, hi, reject_prob, max_duration) ==
    [cycle_time |-> [base_seconds |-> 30000, variance |-> 0,
                     equipment_factors |-> [PRESS |-> 1500]],
     production_volume |-> [units_per_cycle |-> <<lo, hi>>,
                            reject_probability |-> reject_prob],
     downtime |-> [average_duration_minutes |-> 15000,
                   max_duration_minutes |-> max_duration]]

ProductionConfigs ==
    { ProductionEvents(0, 3, 50, 120000),
      ProductionEvents(1, 2, 1000, 7260) }

TestConfig(type, lo, hi, precision, failure_prob) ==
    [test_type |-> type, specification_range |-> <<lo, hi>>,
     measurement_precision |-> precision, failure_probability |-> failure_prob]

QualityControl(tests) ==
    [tests |-> tests, defect_types |-> <<"SCRATCH", "DENT">>]

QualityConfigs ==
    { QualityControl(<<TestConfig("DIMENSION", 9950, 10050,
                                   <<"0", ".", "0", "1">>, 20)>>),
      QualityControl(<<TestConfig("TORQUE", 10040, 10060,
                                   <<"0", ".", "1">>, 20),
                       TestConfig("WEIGHT", 560, 1540, <<"1">>, 0)>>) }

BaseConfig ==
    [equipment |-> <<EQ1>>,
     sensor_data |-> QuietSensors,
     production_lines |-> <<[line_id |-> "LINE1"], [line_id |-> "LINE2"]>>,
     products |-> <<[product_id |-> "P1"]>>,
     operators |-> <<[operator_id |-> "OP1", shift |-> "DAY_SHIFT"],
                     [operator_id |-> "OP2", shift |-> "AFTERNOON_SHIFT"]>>,
     production_events |-> ProductionEvents(0, 3, 50, 120000),
     inspectors |-> <<[inspector_id |-> "INS1"]>>,
     quality_control |-> QualityControl(<<TestConfig("DIMENSION", 9950, 10050,
                                                    <<"0", ".", "0", "1">>, 20)>>)]

Kinds == {"sensor", "production", "quality"}

\* What a process is started with: a configuration and the generators it
\* constructs.  Each equipment list with each sensor parameter set for a sensor
\* generator, each production parameter set for a production generator, each
\* quality parameter set for a quality generator (the rest as in BaseConfig),
\* and BaseConfig for all three generators together.
Scenario(cfg, gens) == [config |-> cfg, generators |-> gens]

SensorVariety ==
    {Scenario([BaseConfig EXCEPT !.equipment = e, !.sensor_data = s], {"sensor"}) :
        e \in EquipmentConfigs, s \in SensorConfigs}

ProductionVariety ==
    {Scenario([BaseConfig EXCEPT !.production_events = p], {"production"}) :
        p \in ProductionConfigs}

QualityVariety ==
    {Scenario([BaseConfig EXCEPT !.quality_control = q], {"quality"}) :
        q \in QualityConfigs}

Scenarios ==
    SensorVariety \cup ProductionVariety \cup QualityVariety
    \cup {Scenario(BaseConfig, Kinds)}

\* Wall-clock readings a process starts at: 13:59:59.
StartTimes == {(13 * 60 * 60) + (59 * 60) + 59}

\* ---------------------------------------------------------------- state
VARIABLES
    config,           \* the loaded configuration
    generators,       \* the generators the process has constructed
    random_seed,      \* the seed the generators are constructed with, or NoSeed
    rng,              \* the state of the two random sources
    equipment_state,  \* SensorDataGenerator.equipment_state
    now,              \* the wall clock
    pc,               \* where the running generate_batch call stands
    kind,             \* the generator whose generate_batch is running
    batch_size,       \* its argument
    i,                \* the loop counter of generate_batch
    records,          \* the list generate_batch builds and returns
    local,            \* the local values of the record being generated
    genlog,           \* history: the records of this call, as they were generated
    generated,        \* history: records generated by this process
    run,              \* 1 for the first process, 2 for a second, independent one
    first_output,     \* what the first process returned
    running,          \* ManufacturingDataGeneratorApp.running
    threads,          \* the three generation threads, by the loop they run
    uploader,         \* the SnowflakeUploader and what it has put where
    main,             \* where the main thread stands in start() and stop()
    loader,           \* a call of ConfigLoader._substitute_env_vars
    script            \* a run of scripts/populate_demo_data.py

vars == <<config, generators, random_seed, rng, equipment_state, now, pc, kind, batch_size,
          i, records, local, genlog, generated, run, first_output,
          running, threads, uploader, main, loader, script>>

\* The configuration loader's call and the population script's run.
tools == <<loader, script>>

\* Neither is running.
NoLoader == loader = [pc |-> "idle"]

NoScript == script = [pc |-> "idle"]

NoTools == NoLoader /\ NoScript

\* The application object's own state.
app == <<running, threads, uploader, main>>

\* A generation thread before it is started, and between two iterations.
NoThread ==
    [pc |-> "unstarted", start_time |-> 0, until |-> 0, data_batch |-> <<>>,
     conn |-> None, success |-> None, raised |-> FALSE, slept_at |-> 0,
     sleep_time |-> 0]

\* ManufacturingDataGeneratorApp.__init__: not running, no threads, no uploader.
AppNew ==
    /\ running = FALSE
    /\ threads = [k \in Kinds |-> NoThread]
    /\ uploader = [constructed |-> FALSE, connection |-> None, unreferenced |-> 0,
                   files |-> 0, staged |-> 0]
    /\ main = [pc |-> "new", connected |-> FALSE, stops |-> 0, joining |-> 0,
               join_start |-> 0, exit_status |-> None]

NoLocal == [equipment |-> None]

\* SensorDataGenerator._initialize_equipment_state: r[k] is the draw of
\* random.randint(1, 30) for the k-th equipment.
InitializeEquipmentState(equipment_config, r, t) ==
    [id \in {equipment_config[k].equipment_id : k \in 1..Len(equipment_config)} |->
        LET k == CHOOSE k \in 1..Len(equipment_config) :
                    /\ equipment_config[k].equipment_id = id
                    /\ \A m \in 1..Len(equipment_config) :
                          equipment_config[m].equipment_id = id => m <= k
        IN  [temperature_trend |-> 0,
             pressure_trend |-> 0,
             vibration_trend |-> 0,
             efficiency_degradation |-> 0,
             last_maintenance |-> t - (Randint(1, 30, r[k]) * 24 * 60 * 60),
             status |-> "RUNNING"]]

\* SensorDataGenerator.__init__: the random sources after seeding and the
\* draws of _initialize_equipment_state, and the trend states.
Constructed(equipment_config, seed, r, t) ==
    [rng |-> Advance(SeedRng(seed), Len(equipment_config), 0),
     equipment_state |-> InitializeEquipmentState(equipment_config, r, t)]

\* The draws construction may take.
ConstructionDraws(equipment_config, seed) ==
    PyDraws(SeedRng(seed), Len(equipment_config))

\* A process right after constructing its generators with `seed`, at clock t.
Started(sc, seed, t) ==
    /\ config = sc.config
    /\ generators = sc.generators
    /\ random_seed = seed
    /\ \E r \in ConstructionDraws(sc.config.equipment, seed) :
          LET c == Constructed(sc.config.equipment, seed, r, t)
          IN  rng = c.rng /\ equipment_state = c.equipment_state
    /\ now = t
    /\ pc = "idle"
    /\ kind = None
    /\ batch_size = 0
    /\ i = 0
    /\ records = <<>>
    /\ local = NoLocal
    /\ genlog = <<>>
    /\ generated = 0
    /\ run = 1
    /\ first_output = <<>>
    /\ AppNew

Init ==
    /\ \E sc \in Scenarios, t \in StartTimes : Started(sc, NoSeed, t)
    /\ NoTools

\* ------------------------------------------------------- generate_batch
\* A caller asks generator k for a batch of n records.
GenerateBatch(k, n) ==
    /\ pc = "idle"
    /\ k \in generators
    /\ generated + n <= MaxRecords
    /\ pc' = "loop"
    /\ kind' = k
    /\ batch_size' = n
    /\ i' = 0
    /\ records' = <<>>
    /\ genlog' = <<>>
    /\ UNCHANGED <<config, generators, random_seed, rng, equipment_state, now, local,
                   generated, run, first_output, app, tools>>

StartBatch == \E k \in Kinds, n \in 0..MaxBatch : GenerateBatch(k, n)

\* One iteration too many: range(batch_size + 1).
LoopRunsOnceMore == i <= batch_size

\* The iterations `for _ in range(batch_size)` has left.
LoopRuns == i < batch_size

\* records.append(record), ending one iteration of the loop.
AppendRecord(record) ==
    /\ records' = Append(records, record)
    /\ genlog' = Append(genlog, record)
    /\ generated' = generated + 1
    /\ i' = i + 1
    /\ local' = NoLocal
    /\ pc' = "loop"

\* The loop is over: generate_batch returns `records`.
ReturnBatch ==
    /\ pc = "loop"
    /\ ~LoopRuns
    /\ pc' = "returned"
    /\ UNCHANGED <<config, generators, random_seed, rng, equipment_state, now, kind,
                   batch_size, i, records, local, genlog, generated, run,
                   first_output, app, tools>>

\* The caller has taken the batch; the generator is free for the next call.
TakeBatch ==
    /\ pc = "returned"
    /\ pc' = "idle"
    /\ kind' = None
    /\ batch_size' = 0
    /\ i' = 0
    /\ records' = <<>>
    /\ genlog' = <<>>
    /\ UNCHANGED <<config, generators, random_seed, rng, equipment_state, now, local,
                   generated, run, first_output, app, tools>>

\* ---------------------------------------- SensorDataGenerator, by step
\* What a step of one record's generation leaves alone.
process == <<config, generators, random_seed, run, first_output, kind, batch_size,
             app, tools>>

\* generate_batch, loop body: equipment = random.choice(self.equipment_config)
SensorSelect ==
    /\ pc = "loop" /\ kind = "sensor" /\ LoopRuns
    /\ \E r \in PyDraws(rng, 1) :
          local' = [equipment |-> Choice(config.equipment, r[1]),
                    temperature |-> 0, pressure |-> 0, vibration |-> 0,
                    speed_rpm |-> 0, efficiency |-> 0,
                    power_consumption |-> 0, status |-> None]
    /\ rng' = Advance(rng, 1, 0)
    /\ pc' = "temperature"
    /\ UNCHANGED <<process, equipment_state, now, i, records, genlog, generated>>

\* The trend state of the equipment the record is for.
State == equipment_state[local.equipment.equipment_id]

SensorTemperature ==
    /\ pc = "temperature"
    /\ LET c == config.sensor_data.temperature IN
       \E z \in NpNormals(rng, 1), r \in PyDraws(rng, 2) :
          /\ local' = [local EXCEPT !.temperature =
                          SimulateTemperature(
                              GetBaseTemperature(local.equipment.equipment_type),
                              local.equipment.max_temperature, State, c,
                              z[1], r[1], r[2])]
          /\ rng' = Advance(rng, SpikeDraws(c.spike_probability, r[1]), 1)
    /\ pc' = "pressure"
    /\ UNCHANGED <<process, equipment_state, now, i, records, genlog, generated>>

SensorPressure ==
    /\ pc = "pressure"
    /\ LET c == config.sensor_data.pressure IN
       \E z \in NpNormals(rng, 1), r \in PyDraws(rng, 2) :
          /\ local' = [local EXCEPT !.pressure =
                          SimulatePressure(
                              GetBasePressure(local.equipment.equipment_type),
                              local.equipment.max_pressure, State, c,
                              z[1], r[1], r[2])]
          /\ rng' = Advance(rng, SpikeDraws(c.spike_probability, r[1]), 1)
    /\ pc' = "vibration"
    /\ UNCHANGED <<process, equipment_state, now, i, records, genlog, generated>>

SensorVibration ==
    /\ pc = "vibration"
    /\ LET c == config.sensor_data.vibration IN
       \E z \in NpNormals(rng, 1), r \in PyDraws(rng, 3) :
          /\ local' = [local EXCEPT !.vibration =
                          SimulateVibration(State, c, r[1], z[1], r[2], r[3])]
          /\ rng' = Advance(rng, 1 + SpikeDraws(c.spike_probability, r[2]), 1)
    /\ pc' = "speed"
    /\ UNCHANGED <<process, equipment_state, now, i, records, genlog, generated>>

SensorSpeed ==
    /\ pc = "speed"
    /\ LET c == config.sensor_data.speed_rpm IN
       \E z \in NpNormals(rng, 1), r \in PyDraws(rng, 3) :
          /\ local' = [local EXCEPT !.speed_rpm =
                          SimulateSpeed(
                              GetBaseSpeed(local.equipment.equipment_type),
                              local.equipment.max_speed, State, c,
                              r[1], z[1], r[2], r[3])]
          /\ rng' = Advance(rng, 1 + SpikeDraws(c.spike_probability, r[2]), 1)
    /\ pc' = "efficiency"
    /\ UNCHANGED <<process, equipment_state, now, i, records, genlog, generated>>

SensorEfficiency ==
    /\ pc = "efficiency"
    /\ \E z \in NpNormals(rng, 1), r \in PyDraws(rng, 1) :
          local' = [local EXCEPT !.efficiency =
                       SimulateEfficiency(State, config.sensor_data.efficiency,
                                          r[1], z[1])]
    /\ rng' = Advance(rng, 1, 1)
    /\ pc' = "power"
    /\ UNCHANGED <<process, equipment_state, now, i, records, genlog, generated>>

SensorPower ==
    /\ pc = "power"
    /\ \E z \in NpNormals(rng, 1), r \in PyDraws(rng, 1) :
          local' = [local EXCEPT !.power_consumption =
                       SimulatePowerConsumption(
                           local.temperature, local.speed_rpm, local.efficiency,
                           config.sensor_data.power_consumption, r[1], z[1])]
    /\ rng' = Advance(rng, 1, 1)
    /\ pc' = "status"
    /\ UNCHANGED <<process, equipment_state, now, i, records, genlog, generated>>

SensorStatus ==
    /\ pc = "status"
    /\ \E r \in PyDraws(rng, 3) :
          LET s == DetermineStatus(local.temperature, local.pressure,
                                   local.vibration, local.equipment.max_temperature,
                                   local.equipment.max_pressure, r)
          IN  /\ local' = [local EXCEPT !.status = s.status]
              /\ rng' = Advance(rng, s.n, 0)
    /\ pc' = "update"
    /\ UNCHANGED <<process, equipment_state, now, i, records, genlog, generated>>

\* An update that drifts the trend state of every equipment.
SensorUpdateAll ==
    /\ pc = "update"
    /\ \E r \in UpdateDraws(rng) :
          equipment_state' =
              [id \in DOMAIN equipment_state |->
                  UpdateEquipmentState(equipment_state[id], r, now)]
    /\ rng' = Advance(rng, 5, 0)
    /\ pc' = "reading"
    /\ UNCHANGED <<process, now, i, records, local, genlog, generated>>

SensorUpdate ==
    /\ pc = "update"
    /\ \E r \in UpdateDraws(rng) :
          equipment_state' =
              [equipment_state EXCEPT ![local.equipment.equipment_id] =
                  UpdateEquipmentState(@, r, now)]
    /\ rng' = Advance(rng, 5, 0)
    /\ pc' = "reading"
    /\ UNCHANGED <<process, now, i, records, local, genlog, generated>>

\* _generate_sensor_reading returns its record, stamped datetime.now(), and
\* generate_batch appends it; the clock moves on.
SensorReturn ==
    /\ pc = "reading"
    /\ AppendRecord(SensorRecord(local, now))
    /\ now' = now + 1
    /\ UNCHANGED <<process, rng, equipment_state>>

SensorNext ==
    \/ SensorSelect
    \/ SensorTemperature
    \/ SensorPressure
    \/ SensorVibration
    \/ SensorSpeed
    \/ SensorEfficiency
    \/ SensorPower
    \/ SensorStatus
    \/ SensorUpdate
    \/ SensorReturn

\* ------------------------------------ ProductionDataGenerator, by step
\* generate_batch, loop body: the equipment, its line, the product and the
\* operator of the event.
ProductionSelect ==
    /\ pc = "loop" /\ kind = "production" /\ LoopRuns
    /\ \E r \in PyDraws(rng, 3) :
          LET equipment == Choice(config.equipment, r[1]) IN
          local' = [equipment |-> equipment,
                    line |-> GetLineForEquipment(equipment, config.production_lines),
                    product |-> Choice(config.products, r[2]),
                    current_shift |-> GetCurrentShift(HourOf(now)),
                    operator |-> GetCurrentOperator(config.operators,
                                                    HourOf(now), r[3]),
                    event_type |-> None, cycle_time |-> 0,
                    units_produced |-> 0, planned_units |-> 0,
                    reject_count |-> 0, downtime_minutes |-> 0, trial |-> 0]
    /\ rng' = Advance(rng, 2 + OperatorDraws(config.operators, HourOf(now)), 0)
    /\ pc' = "event"
    /\ UNCHANGED <<process, equipment_state, now, i, records, genlog, generated>>

\* _generate_production_event: the event type and the cycle time.
ProductionEvent ==
    /\ pc = "event"
    /\ \E r \in PyDraws(rng, 1), z \in NpNormals(rng, 1) :
          /\ local' = [local EXCEPT
                          !.event_type = DetermineEventType(r[1]),
                          !.cycle_time =
                              GenerateCycleTime(local.equipment.equipment_type,
                                                config.production_events, z[1])]
          /\ pc' = IF DetermineEventType(r[1]) = "PRODUCTION"
                   THEN "volume" ELSE "downtime"
    /\ rng' = Advance(rng, 1, 1)
    /\ UNCHANGED <<process, equipment_state, now, i, records, genlog, generated>>

\* event_type == 'PRODUCTION': the volume; the reject loop starts.
ProductionVolume ==
    /\ pc = "volume"
    /\ \E r \in PyDraws(rng, 2) :
          LET volume == GenerateProductionVolume(config.production_events,
                                                 r[1], r[2])
          IN  local' = [local EXCEPT !.units_produced = volume[1],
                                     !.planned_units = volume[2],
                                     !.reject_count = 0, !.trial = 0]
    /\ rng' = Advance(rng, 2, 0)
    /\ pc' = "rejects"
    /\ UNCHANGED <<process, equipment_state, now, i, records, genlog, generated>>

\* _generate_reject_count: one pass of `for _ in range(units_produced)`.
ProductionReject ==
    /\ pc = "rejects"
    /\ RejectLoopRuns(local)
    /\ \E r \in PyDraws(rng, 1) :
          local' = [local EXCEPT
                       !.reject_count =
                           RejectTrial(@, config.production_events
                                            .production_volume.reject_probability,
                                       r[1]),
                       !.trial = @ + 1]
    /\ rng' = Advance(rng, 1, 0)
    /\ UNCHANGED <<process, equipment_state, now, pc, i, records, genlog,
                   generated>>

\* The reject loop is over; downtime_minutes = 0.
ProductionRejectsDone ==
    /\ pc = "rejects"
    /\ ~RejectLoopRuns(local)
    /\ local' = [local EXCEPT !.downtime_minutes = 0]
    /\ pc' = "event_return"
    /\ UNCHANGED <<process, rng, equipment_state, now, i, records, genlog,
                   generated>>

\* event_type != 'PRODUCTION': no units, a planned count, a downtime.
ProductionDowntime ==
    /\ pc = "downtime"
    /\ \E r \in PyDraws(rng, 1), e \in NpExponentials(rng, 1) :
          local' = [local EXCEPT
                       !.units_produced = 0,
                       !.planned_units = Randint(1, 10, r[1]),
                       !.reject_count = 0,
                       !.downtime_minutes =
                           GenerateDowntime(config.production_events, e[1])]
    /\ rng' = Advance(rng, 1, 1)
    /\ pc' = "event_return"
    /\ UNCHANGED <<process, equipment_state, now, i, records, genlog, generated>>

\* _generate_production_event returns its record; generate_batch appends it.
ProductionReturn ==
    /\ pc = "event_return"
    /\ \E r \in PyDraws(rng, 1) :
          AppendRecord(ProductionRecord(local, now, r[1]))
    /\ rng' = Advance(rng, 1, 0)
    /\ now' = now + 1
    /\ UNCHANGED <<process, equipment_state>>

ProductionNext ==
    \/ ProductionSelect
    \/ ProductionEvent
    \/ ProductionVolume
    \/ ProductionReject
    \/ ProductionRejectsDone
    \/ ProductionDowntime
    \/ ProductionReturn

\* --------------------------------------- QualityDataGenerator, by step
\* generate_batch, loop body: product, equipment, inspector and test.
QualitySelect ==
    /\ pc = "loop" /\ kind = "quality" /\ LoopRuns
    /\ \E r \in PyDraws(rng, 4) :
          local' = [product |-> Choice(config.products, r[1]),
                    equipment |-> Choice(config.equipment, r[2]),
                    inspector |-> Choice(config.inspectors, r[3]),
                    test |-> Choice(config.quality_control.tests, r[4])]
    /\ rng' = Advance(rng, 4, 0)
    /\ pc' = "test"
    /\ UNCHANGED <<process, equipment_state, now, i, records, genlog, generated>>

\* _generate_quality_test, whole; generate_batch appends its record.
QualityReturn ==
    /\ pc = "test"
    /\ \E r \in PyDraws(rng, 6) :
          LET o == QualityOutcome(local.test, config.quality_control.defect_types, r)
          IN  /\ AppendRecord(QualityRecord(local, o, now, r[o.n + 1], r[o.n + 2]))
              /\ rng' = Advance(rng, o.n + 2, 0)
    /\ now' = now + 1
    /\ UNCHANGED <<process, equipment_state>>

QualityNext ==
    \/ QualitySelect
    \/ QualityReturn

\* ------------------------------------------------- two independent runs
\* A second, independent process: the first one has returned its batch; a new
\* process starts with the same configuration and seed, at the clock's reading.
Restart ==
    /\ pc = "returned"
    /\ run = 1
    /\ run' = 2
    /\ first_output' = records
    /\ \E r \in ConstructionDraws(config.equipment, random_seed) :
          LET c == Constructed(config.equipment, random_seed, r, now)
          IN  rng' = c.rng /\ equipment_state' = c.equipment_state
    /\ pc' = "idle"
    /\ kind' = None
    /\ batch_size' = 0
    /\ i' = 0
    /\ records' = <<>>
    /\ local' = NoLocal
    /\ genlog' = <<>>
    /\ generated' = 0
    /\ UNCHANGED <<config, generators, random_seed, now, app, tools>>

\* A run of the sensor simulator producing one reading.
StartRun == GenerateBatch("sensor", 1)

Seeds == 0..MaxSeed

InitRuns ==
    /\ \E sc \in SensorVariety, seed \in Seeds, t \in StartTimes : Started(sc, seed, t)
    /\ NoTools

NextRuns ==
    \/ StartRun
    \/ SensorNext
    \/ ReturnBatch
    \/ Restart

\* Two runs of the sensor simulator with one seed, one after the other.
SpecRuns == InitRuns /\ [][NextRuns]_vars

\* ------------------------------------------- production round the clock
\* Operators with two on the day shift and none on the night shift.
ShiftOperatorsConfig ==
    <<[operator_id |-> "OP1", shift |-> "DAY_SHIFT"],
      [operator_id |-> "OP2", shift |-> "AFTERNOON_SHIFT"],
      [operator_id |-> "OP3", shift |-> "DAY_SHIFT"]>>

\* The last second of every hour of the day.
HourlyTimes == {(h * 60 * 60) + (59 * 60) + 59 : h \in 0..23}

InitShifts ==
    /\ \E t \in HourlyTimes :
          Started(Scenario([BaseConfig EXCEPT !.operators = ShiftOperatorsConfig],
                           {"production"}), NoSeed, t)
    /\ NoTools

\* A caller asks the production generator for one event.
StartEvent == GenerateBatch("production", 1)

NextShifts ==
    \/ StartEvent
    \/ ProductionNext
    \/ ReturnBatch
    \/ TakeBatch

\* The production generator called at every hour of the day.
SpecShifts == InitShifts /\ [][NextShifts]_vars

\* ------------------------------------------------------- the application
\* main.py (ManufacturingDataGeneratorApp), config_loader.py and
\* snowflake_uploader.py.  The loaded file's 'manufacturing' section is
\* flattened: its keys stand beside the other sections.  The clock `now`
\* counts seconds.  A batch a loop generates is modelled by its length and by
\* whether generating it raises; the records themselves are those of Spec.
\* Generating a batch and the PUT of an upload take a whole number of seconds,
\* every other step none: a step that is due is taken before the clock moves.

\* Seconds the clock runs for.
MaxClock == 8

\* stop(): thread.join(timeout=5).
JoinTimeout == 5

\* Seconds generate_batch(n) may take (a batch of six records or more may
\* take longer than the join waits), and seconds the PUT of an upload may take.
GenerateSeconds(n) == {0, 1} \cup {JoinTimeout + 1 : m \in 6..n}

UploadSeconds == {0, 1, JoinTimeout + 1}

Snowflake ==
    [account |-> "acct", user |-> "user", password |-> "pw", warehouse |-> "wh",
     database |-> "db", schema |-> "sc"]

\* A configuration file with every section the application reads.
GoodConfig ==
    [snowflake |-> Snowflake,
     generation |-> [interval_seconds |-> 2, batch_size |-> 2],
     equipment |-> BaseConfig.equipment,
     sensor_data |-> BaseConfig.sensor_data,
     production_lines |-> BaseConfig.production_lines,
     products |-> BaseConfig.products,
     operators |-> BaseConfig.operators,
     production_events |-> BaseConfig.production_events,
     inspectors |-> BaseConfig.inspectors,
     quality_control |-> BaseConfig.quality_control]

\* The file without one of its top-level keys.
Without(cfg, key) == [f \in DOMAIN cfg \ {key} |-> cfg[f]]

\* Configuration files: a complete one, one with a longer interval, one with
\* batches of six sensor readings every four seconds, one with an empty
\* operator list, one without the sensor parameters of the temperature
\* signal, one with an empty inspector list and three records a batch, one
\* without an operator list, and one without the quality section.
AppConfigs ==
    { GoodConfig,
      [GoodConfig EXCEPT !.generation.interval_seconds = 3],
      [GoodConfig EXCEPT !.generation.batch_size = 6,
                         !.generation.interval_seconds = 4],
      [GoodConfig EXCEPT !.operators = <<>>],
      [GoodConfig EXCEPT !.generation.interval_seconds = 3, !.operators = <<>>],
      [GoodConfig EXCEPT !.sensor_data = Without(GoodConfig.sensor_data, "temperature")],
      [GoodConfig EXCEPT !.inspectors = <<>>, !.generation.batch_size = 3],
      Without(GoodConfig, "operators"),
      Without(GoodConfig, "quality_control") }

\* ConfigLoader._validate_config: TRUE when it raises nothing.
ValidateConfig(cfg) ==
    /\ {"snowflake", "generation", "sensor_data", "production_events",
        "quality_control"} \subseteq DOMAIN cfg
    /\ \A key \in {"account", "user", "password", "warehouse", "database", "schema"} :
          key \in DOMAIN cfg.snowflake /\ cfg.snowflake[key] # ""
    /\ \A section \in {"equipment", "production_lines", "products"} :
          section \in DOMAIN cfg /\ cfg[section] # <<>>

\* _initialize_generators: TRUE when every key it reads is there.
InitializeGenerators(cfg) ==
    {"equipment", "sensor_data", "production_lines", "products", "operators",
     "production_events", "inspectors", "quality_control"} \subseteq DOMAIN cfg

\* The signals _generate_base_values reads the parameters of.
SignalNames ==
    {"temperature", "pressure", "vibration", "speed_rpm", "efficiency",
     "power_consumption"}

\* Whether generate_batch(n) of generator k raises on this configuration: a
\* missing signal is a KeyError in the sensor generator, an empty operator list
\* an IndexError in _get_current_operator, an empty inspector or test list an
\* IndexError in random.choice.
GenerateRaises(k, cfg, n) ==
    /\ n > 0
    /\ CASE k = "sensor" -> ~(SignalNames \subseteq DOMAIN cfg.sensor_data)
         [] k = "production" -> cfg.operators = <<>>
         [] k = "quality" -> cfg.inspectors = <<>> \/ cfg.quality_control.tests = <<>>

\* The list generate_batch(n) of generator k returns: n records.
GeneratedBatch(k, n) == [m \in 1..n |-> [generator |-> k, record |-> m]]

\* _start_generation_threads: the order the threads are started in, and the
\* interval and batch size each loop is given.
ThreadOrder == <<"sensor", "production", "quality">>

Interval(k, cfg) ==
    CASE k = "sensor" -> cfg.generation.interval_seconds
      [] k = "production" -> cfg.generation.interval_seconds * 2
      [] k = "quality" -> cfg.generation.interval_seconds * 3

BatchSize(k, cfg) ==
    CASE k = "sensor" -> cfg.generation.batch_size
      [] k = "production" -> cfg.generation.batch_size \div 2
      [] k = "quality" -> cfg.generation.batch_size \div 3

\* A thread is alive from its start until its loop returns.
IsAlive(th) == th.pc \notin {"unstarted", "done"}

\* Whether the next step of a thread is due.
Due(th) ==
    \/ th.pc \in {"while", "upload", "connect"}
    \/ th.pc \in {"generate", "put", "sleep"} /\ now >= th.until

\* Whether the next step of the main thread is due.
MainDue ==
    \/ main.pc \in {"new", "initialized", "stop", "close"}
    \/ /\ main.pc = "join"
       /\ \/ ~IsAlive(threads[ThreadOrder[main.joining]])
          \/ now - main.join_start >= JoinTimeout

\* A start() that goes on whatever initialize() returned.
AfterInitializeAlways(ok) == "initialized"

\* start(): `if not self.initialize(): ... return False`.
AfterInitialize(ok) == IF ok THEN "initialized" ELSE "failed"

\* initialize(): load and validate the configuration, construct the uploader,
\* test the connection (connected is its result), construct the generators.
\* When it fails start() returns False and main() exits with status 1.
Initialize ==
    /\ main.pc = "new"
    /\ \E connected \in BOOLEAN :
          LET loaded == ValidateConfig(config)
              ok == loaded /\ connected /\ InitializeGenerators(config)
          IN  /\ uploader' = [uploader EXCEPT !.constructed = loaded]
              /\ main' = [main EXCEPT
                              !.pc = AfterInitialize(ok),
                              !.connected = loaded /\ connected,
                              !.exit_status =
                                  IF AfterInitialize(ok) = "failed" THEN 1 ELSE @]
              /\ IF ok
                    THEN /\ generators' = Kinds
                         /\ \E r \in ConstructionDraws(config.equipment, NoSeed) :
                               LET c == Constructed(config.equipment, NoSeed, r, now)
                               IN  /\ rng' = c.rng
                                   /\ equipment_state' = c.equipment_state
                    ELSE UNCHANGED <<generators, rng, equipment_state>>
    /\ UNCHANGED <<config, random_seed, now, pc, kind, batch_size, i, records, local,
                   genlog, generated, run, first_output, running, threads, tools>>

\* The steps of the application leave the generators' call state alone.
calls == <<config, generators, random_seed, rng, equipment_state, pc, kind, batch_size,
           i, records, local, genlog, generated, run, first_output, tools>>

\* start() after initialize(): running = True, _start_generation_threads();
\* the main thread then sleeps in `while self.running`.
StartGenerationThreads ==
    /\ main.pc = "initialized"
    /\ running' = TRUE
    /\ threads' = [k \in Kinds |-> [NoThread EXCEPT !.pc = "while"]]
    /\ main' = [main EXCEPT !.pc = "serving"]
    /\ UNCHANGED <<calls, now, uploader>>

\* SIGINT or SIGTERM: _signal_handler calls stop().
ReceiveSignal ==
    /\ main.pc = "serving"
    /\ main' = [main EXCEPT !.pc = "stop", !.stops = 1]
    /\ UNCHANGED <<calls, now, running, threads, uploader>>

\* stop(): running = False, then the joins begin with the first thread.
Stop ==
    /\ main.pc = "stop"
    /\ running' = FALSE
    /\ main' = [main EXCEPT !.pc = "join", !.joining = 1, !.join_start = now]
    /\ UNCHANGED <<calls, now, threads, uploader>>

\* stop(): `if thread.is_alive(): thread.join(timeout=5)` returns when the
\* thread is no longer alive or the timeout has passed; then the next thread.
JoinThread ==
    /\ main.pc = "join"
    /\ MainDue
    /\ main' = IF main.joining < Len(ThreadOrder)
                  THEN [main EXCEPT !.joining = @ + 1, !.join_start = now]
                  ELSE [main EXCEPT !.pc = "close", !.joining = 0, !.join_start = 0]
    /\ UNCHANGED <<calls, now, running, threads, uploader>>

\* SnowflakeUploader.close().
CloseConnection(up) ==
    [up EXCEPT !.connection = IF @ = "open" THEN "closed" ELSE @]

\* stop(): self.uploader.close().  After the signal handler's stop() the main
\* loop ends and start() calls stop() once more, returns True, and main()
\* exits with status 0.
Close ==
    /\ main.pc = "close"
    /\ uploader' = CloseConnection(uploader)
    /\ main' = IF main.stops = 1
                  THEN [main EXCEPT !.pc = "stop", !.stops = 2]
                  ELSE [main EXCEPT !.pc = "exited", !.exit_status = 0]
    /\ UNCHANGED <<calls, now, running, threads>>

\* `while self.running:` and `start_time = time.time()` of a generation loop.
LoopCheck(k) ==
    /\ threads[k].pc = "while"
    /\ \E d \in GenerateSeconds(BatchSize(k, config)) :
          threads' = [threads EXCEPT ![k] =
                         IF running
                            THEN [NoThread EXCEPT !.pc = "generate",
                                                  !.start_time = now,
                                                  !.until = now + d]
                            ELSE [NoThread EXCEPT !.pc = "done"]]
    /\ UNCHANGED <<calls, now, running, uploader, main>>

\* A loop that returns from its `except`.
AfterExceptionReturn == "done"

\* The loop's `except Exception`: log, time.sleep(interval), and on to the
\* loop test.
AfterException == "sleep"

\* generate_batch returns a batch, or raises and the loop's `except` logs and
\* sleeps `interval`.
Generate(k) ==
    /\ threads[k].pc = "generate"
    /\ now >= threads[k].until
    /\ threads' = [threads EXCEPT ![k] =
                      IF GenerateRaises(k, config, BatchSize(k, config))
                         THEN [@ EXCEPT !.raised = TRUE, !.pc = AfterException,
                                        !.slept_at = now,
                                        !.sleep_time = Interval(k, config),
                                        !.until = now + Interval(k, config)]
                         ELSE [@ EXCEPT !.pc = "upload",
                                        !.data_batch =
                                            GeneratedBatch(k, BatchSize(k, config))]]
    /\ UNCHANGED <<calls, now, running, uploader, main>>

\* An upload that takes no batch for an empty one.
NothingToUploadEver(data) == FALSE

\* upload_*_data: `if not data`.
NothingToUpload(data) == data = <<>>

\* The loop after the upload: sleep_time = max(0, interval - elapsed).
SleepTime(interval, elapsed) == Max(0, interval - elapsed)

\* A loop that ends when an upload has failed.
AfterUploadUntilFailure(success, sleep_time) ==
    IF success THEN (IF sleep_time > 0 THEN "sleep" ELSE "while") ELSE "done"

\* The loop after the upload: the outcome is logged, and the thread sleeps
\* `if sleep_time > 0`.
AfterUpload(success, sleep_time) == IF sleep_time > 0 THEN "sleep" ELSE "while"

\* The loop from the return of the upload to time.sleep.
Uploaded(k, th, success) ==
    LET sleep_time == SleepTime(Interval(k, config), now - th.start_time)
    IN  [th EXCEPT !.success = success,
                   !.conn = None,
                   !.pc = AfterUpload(success, sleep_time),
                   !.slept_at = now,
                   !.sleep_time = sleep_time,
                   !.until = now + sleep_time]

\* upload_*_data up to the test of _get_connection: an empty batch returns
\* True; otherwise the compressed file is written, and the PUT begins on
\* self.connection when it is open.
UploadBegin(k) ==
    /\ threads[k].pc = "upload"
    /\ IF NothingToUpload(threads[k].data_batch)
          THEN /\ threads' = [threads EXCEPT ![k] = Uploaded(k, @, TRUE)]
               /\ UNCHANGED uploader
          ELSE /\ uploader' = [uploader EXCEPT !.files = @ + 1]
               /\ IF uploader.connection = "open"
                     THEN \E d \in UploadSeconds :
                             threads' = [threads EXCEPT ![k].pc = "put",
                                                        ![k].conn = "current",
                                                        ![k].until = now + d]
                     ELSE threads' = [threads EXCEPT ![k].pc = "connect"]
    /\ UNCHANGED <<calls, now, running, main>>

\* The connection a thread holds once self.connection is assigned anew: the
\* one it held as self.connection is lost to the uploader, open or closed.
Held(th, up) ==
    IF th.conn = "current"
       THEN [th EXCEPT !.conn = IF up.connection = "open"
                                   THEN "lost_open" ELSE "lost_closed"]
       ELSE th

\* _get_connection after its test found no open connection: it connects and
\* assigns self.connection, whatever self.connection has become since the
\* test, and the PUT begins.  When connecting raises, the file is removed and
\* the upload returns False.
Connect(k) ==
    /\ threads[k].pc = "connect"
    /\ \E connects \in BOOLEAN, d \in UploadSeconds :
          IF connects
             THEN /\ uploader' = [uploader EXCEPT
                                     !.connection = "open",
                                     !.unreferenced =
                                         IF uploader.connection = "open"
                                            THEN @ + 1 ELSE @]
                  /\ threads' = [j \in Kinds |->
                                    IF j = k
                                       THEN [threads[j] EXCEPT !.pc = "put",
                                                               !.conn = "current",
                                                               !.until = now + d]
                                       ELSE Held(threads[j], uploader)]
             ELSE /\ uploader' = [uploader EXCEPT !.files = @ - 1]
                  /\ threads' = [threads EXCEPT ![k] = Uploaded(k, @, FALSE)]
    /\ UNCHANGED <<calls, now, running, main>>

\* _upload_file_to_stage from the result of the PUT: True when the connection
\* the thread holds is still open and the stage reports UPLOADED; the file is
\* removed either way.
UploadEnd(k) ==
    /\ threads[k].pc = "put"
    /\ now >= threads[k].until
    /\ \E uploaded \in BOOLEAN :
          LET open == \/ threads[k].conn = "lost_open"
                      \/ threads[k].conn = "current" /\ uploader.connection = "open"
              success == uploaded /\ open
          IN  /\ uploader' = [uploader EXCEPT !.files = @ - 1,
                                              !.staged = IF success THEN 1 ELSE @]
              /\ threads' = [threads EXCEPT ![k] = Uploaded(k, @, success)]
    /\ UNCHANGED <<calls, now, running, main>>

\* time.sleep(sleep_time) returns.
Wake(k) ==
    /\ threads[k].pc = "sleep"
    /\ now >= threads[k].until
    /\ threads' = [threads EXCEPT ![k] = [NoThread EXCEPT !.pc = "while"]]
    /\ UNCHANGED <<calls, now, running, uploader, main>>

\* A second passes.
Tick ==
    /\ now < MaxClock
    /\ ~MainDue
    /\ \A k \in Kinds : ~Due(threads[k])
    /\ now' = now + 1
    /\ UNCHANGED <<calls, app, tools>>

SensorLoop ==
    \/ LoopCheck("sensor")
    \/ Generate("sensor")
    \/ UploadBegin("sensor")
    \/ Connect("sensor")
    \/ UploadEnd("sensor")
    \/ Wake("sensor")

ProductionLoop ==
    \/ LoopCheck("production")
    \/ Generate("production")
    \/ UploadBegin("production")
    \/ Connect("production")
    \/ UploadEnd("production")
    \/ Wake("production")

QualityLoop ==
    \/ LoopCheck("quality")
    \/ Generate("quality")
    \/ UploadBegin("quality")
    \/ Connect("quality")
    \/ UploadEnd("quality")
    \/ Wake("quality")

\* The application object right after its construction, at midnight, with
\* each configuration file.
InitApp ==
    /\ config \in AppConfigs
    /\ generators = {}
    /\ random_seed = NoSeed
    /\ rng = SeedRng(NoSeed)
    /\ equipment_state = <<>>
    /\ now = 0
    /\ pc = "idle"
    /\ kind = None
    /\ batch_size = 0
    /\ i = 0
    /\ records = <<>>
    /\ local = NoLocal
    /\ genlog = <<>>
    /\ generated = 0
    /\ run = 1
    /\ first_output = <<>>
    /\ AppNew
    /\ NoTools

NextApp ==
    \/ Initialize
    \/ StartGenerationThreads
    \/ ReceiveSignal
    \/ Stop
    \/ JoinThread
    \/ Close
    \/ SensorLoop
    \/ ProductionLoop
    \/ QualityLoop
    \/ Tick

\* The application from construction to exit.
SpecApp == InitApp /\ [][NextApp]_vars

\* The application object constructed with a longer interval, with the
\* complete configuration file and with the one without operators.
InitComplete ==
    /\ InitApp
    /\ config \in {[GoodConfig EXCEPT !.generation.interval_seconds = 3],
                   [GoodConfig EXCEPT !.generation.interval_seconds = 3,
                                      !.operators = <<>>]}

\* The application when every thread
\* that can take a step eventually takes one and time passes: the generation
\* threads and the main thread are scheduled by the interpreter, and a signal
\* may or may not arrive.
SpecAppFair ==
    /\ InitComplete
    /\ [][NextApp]_vars
    /\ WF_vars(SensorLoop)
    /\ WF_vars(ProductionLoop)
    /\ WF_vars(QualityLoop)
    /\ WF_vars(Initialize \/ StartGenerationThreads \/ Stop \/ JoinThread \/ Close)
    /\ WF_vars(Tick)

\* ------------------------------------------------ configuration loading
\* ConfigLoader._substitute_env_vars (config_loader.py).  Text is a sequence of
\* characters; the environment maps a variable name to its value or to Unset.

\* Pieces a configuration text is put together from.
MaxPieces == 3

Unset == <<"unset">>

\* A literal character, and a reference ${name} or ${name:default}.
Lit(c) == [ref |-> FALSE, text |-> <<c>>]

Ref(name, default) ==
    [ref |-> TRUE, name |-> name, has_default |-> TRUE, default |-> default,
     text |-> <<"$", "{">> \o name \o <<":">> \o default \o <<"}">>]

RefNoDefault(name) ==
    [ref |-> TRUE, name |-> name, has_default |-> FALSE, default |-> <<>>,
     text |-> <<"$", "{">> \o name \o <<"}">>]

Pieces ==
    { Lit("d"), Lit(":"), Lit("}"), Lit("{"), Lit("$"),
      RefNoDefault(<<"A">>), RefNoDefault(<<"B", "2">>),
      Ref(<<"A">>, <<>>), Ref(<<"A">>, <<"d">>), Ref(<<"A">>, <<"d", ":", "{">>),
      Ref(<<"B", "2">>, <<"d">>) }

\* Texts of up to MaxPieces pieces in which no literal `$` stands before a
\* literal `{`: every `${` of the text begins a reference.
PieceTexts ==
    { ps \in UNION {[1..n -> Pieces] : n \in 0..MaxPieces} :
        \A k \in 1..(Len(ps) - 1) : ~(ps[k] = Lit("$") /\ ps[k + 1] = Lit("{")) }

\* os.environ: A unset, empty, set, or set to text that itself holds a
\* reference; B2 unset or set.
Environments ==
    { [name \in {<<"A">>, <<"B", "2">>} |-> IF name = <<"A">> THEN a ELSE b] :
        a \in {Unset, <<>>, <<"v">>, <<"$", "{", "B", "2", "}">>},
        b \in {Unset, <<"w">>} }

RECURSIVE Concat(_)
Concat(ps) == IF ps = <<>> THEN <<>> ELSE Head(ps).text \o Concat(Tail(ps))

\* The first position from p on where content holds a character of `stops`,
\* or Len(content) + 1.
RECURSIVE Upto(_, _, _)
Upto(content, p, stops) ==
    IF p > Len(content) \/ content[p] \in stops THEN p
    ELSE Upto(content, p + 1, stops)

\* The pattern \$\{([^}:]+)(?::([^}]*))?\} matched at position p: group 1 runs
\* to the first `}` or `:`, must not be empty, and is followed by `}` or by
\* `:`, group 2 and `}`.
MatchAt(content, p) ==
    LET n == Upto(content, p + 2, {"}", ":"})
        d == Upto(content, n + 1, {"}"})
        NoMatch == [matched |-> FALSE]
    IN  IF ~(p + 1 <= Len(content) /\ content[p] = "$" /\ content[p + 1] = "{")
           THEN NoMatch
        ELSE IF n = p + 2 \/ n > Len(content) THEN NoMatch
        ELSE IF content[n] = "}"
           THEN [matched |-> TRUE, var_name |-> SubSeq(content, p + 2, n - 1),
                 has_default |-> FALSE, default_value |-> <<>>, stop |-> n]
        ELSE IF d > Len(content) THEN NoMatch
        ELSE [matched |-> TRUE, var_name |-> SubSeq(content, p + 2, n - 1),
              has_default |-> TRUE, default_value |-> SubSeq(content, n + 1, d - 1),
              stop |-> d]

\* os.environ.get(var_name).
EnvironGet(environ, var_name) ==
    IF var_name \in DOMAIN environ THEN environ[var_name] ELSE Unset

\* A replace_var that prefers the default to the variable's value.
ReplaceVarDefaultFirst(environ, m) ==
    IF m.has_default THEN [raised |-> FALSE, text |-> m.default_value]
    ELSE IF EnvironGet(environ, m.var_name) # Unset
       THEN [raised |-> FALSE, text |-> EnvironGet(environ, m.var_name)]
    ELSE [raised |-> TRUE, text |-> <<>>]

\* replace_var: the value, else the default, else ValueError.
ReplaceVar(environ, m) ==
    LET value == EnvironGet(environ, m.var_name)
    IN  IF value # Unset THEN [raised |-> FALSE, text |-> value]
        ELSE IF m.has_default THEN [raised |-> FALSE, text |-> m.default_value]
        ELSE [raised |-> TRUE, text |-> <<>>]

\* re.sub(pattern, replace_var, content) from position p on: matches are
\* taken left to right and do not overlap; the replacement is not scanned.
RECURSIVE Sub(_, _, _)
Sub(content, environ, p) ==
    IF p > Len(content) THEN [raised |-> FALSE, text |-> <<>>]
    ELSE LET m == MatchAt(content, p)
             r == IF m.matched THEN ReplaceVar(environ, m)
                  ELSE [raised |-> FALSE, text |-> <<content[p]>>]
             rest == Sub(content, environ, IF m.matched THEN m.stop + 1 ELSE p + 1)
         IN  IF r.raised \/ rest.raised THEN [raised |-> TRUE, text |-> <<>>]
             ELSE [raised |-> FALSE, text |-> r.text \o rest.text]

SubstituteEnvVars(content, environ) == Sub(content, environ, 1)

\* load_config has read a file and calls _substitute_env_vars.
InitEnv ==
    /\ \E sc \in {Scenario(BaseConfig, Kinds)}, t \in StartTimes : Started(sc, NoSeed, t)
    /\ NoScript
    /\ \E ps \in PieceTexts, environ \in Environments :
          loader = [pc |-> "substitute", pieces |-> ps, content |-> Concat(ps),
                    environ |-> environ]

\* _substitute_env_vars returns the text or raises ValueError; when it raises,
\* load_config raises and returns no configuration.
SubstituteEnv ==
    /\ loader.pc = "substitute"
    /\ LET r == SubstituteEnvVars(loader.content, loader.environ)
       IN  loader' = [pc |-> IF r.raised THEN "raised" ELSE "substituted",
                      pieces |-> loader.pieces, content |-> loader.content,
                      environ |-> loader.environ, result |-> r.text]
    /\ UNCHANGED <<config, generators, random_seed, rng, equipment_state, now, pc, kind,
                   batch_size, i, records, local, genlog, generated, run, first_output,
                   app, script>>

NextEnv == SubstituteEnv

\* Environment substitution on every text and environment.
SpecEnv == InitEnv /\ [][NextEnv]_vars

\* ---------------------------------------------------------------------------
\* scripts/execute_sql.py and scripts/populate_demo_data.py.
\*
\* A line of the SQL file is a sequence of tokens: a word "x", a blank " ",
\* and the character groups the splitter looks for, ";", "$$" and "--".

\* The longest SQL file, in lines.
MaxLines == 3

\* Lines of a SQL file: empty, blank, comment, part of a statement, end of a
\* statement (also with a trailing blank), opening and closing line of a $$
\* body, and a body that opens and closes on one line.
LineForms ==
    { <<>>, <<" ">>, <<"--", "x">>, <<"x">>, <<"x", ";">>, <<"x", ";", " ">>,
      <<"x", "$$">>, <<"$$", ";">>, <<"x", "$$", "x", "$$", ";">> }

\* sql_content.split('\n') of every file of at most MaxLines lines.
SqlFiles == UNION {[1..n -> LineForms] : n \in 0..MaxLines}

RECURSIVE LStrip(_)
\* str.lstrip() of a line.
LStrip(line) ==
    IF line # <<>> /\ Head(line) = " " THEN LStrip(Tail(line)) ELSE line

RECURSIVE RStrip(_)
\* str.rstrip() of a line.
RStrip(line) ==
    IF line # <<>> /\ line[Len(line)] = " "
       THEN RStrip(SubSeq(line, 1, Len(line) - 1))
       ELSE line

\* line.strip().
Strip(line) == RStrip(LStrip(line))

\* `'$$' in line`.
HasDelimiter(line) == \E p \in 1..Len(line) : line[p] = "$$"

\* `'$$;' in line`.
HasClosing(line) ==
    \E p \in 1..Len(line) - 1 : line[p] = "$$" /\ line[p + 1] = ";"

\* line.strip().startswith('--').
IsComment(line) == Strip(line) # <<>> /\ Head(Strip(line)) = "--"

\* line.strip().endswith(';').
EndsStatement(line) == Strip(line) # <<>> /\ Strip(line)[Len(Strip(line))] = ";"

RECURSIVE LStripText(_)
\* The leading whitespace of a text of several lines removed.
LStripText(text) ==
    IF text = <<>> THEN <<>>
    ELSE IF Strip(Head(text)) = <<>> THEN LStripText(Tail(text))
    ELSE <<LStrip(Head(text))>> \o Tail(text)

RECURSIVE RStripText(_)
\* The trailing whitespace of a text of several lines removed.
RStripText(text) ==
    IF text = <<>> THEN <<>>
    ELSE IF Strip(text[Len(text)]) = <<>>
            THEN RStripText(SubSeq(text, 1, Len(text) - 1))
    ELSE SubSeq(text, 1, Len(text) - 1) \o <<RStrip(text[Len(text)])>>

\* current_statement.strip(): a statement is the sequence of its lines.
StripText(text) == RStripText(LStripText(text))

\* The splitter before the first line.
SplitStart == [statements |-> <<>>, current_statement |-> <<>>, in_procedure |-> FALSE]

\* One pass of `for line in lines`.
SplitLine(st, line) ==
    IF ~st.in_procedure /\ (IsComment(line) \/ Strip(line) = <<>>)
       THEN st
       ELSE LET current == Append(st.current_statement, line)
            IN  IF HasDelimiter(line) /\ ~st.in_procedure
                   THEN [st EXCEPT !.current_statement = current,
                                   !.in_procedure = TRUE]
                ELSE IF HasClosing(line) /\ st.in_procedure
                   THEN [statements |-> Append(st.statements, StripText(current)),
                         current_statement |-> <<>>, in_procedure |-> FALSE]
                ELSE IF EndsStatement(line) /\ ~st.in_procedure
                   THEN [statements |-> Append(st.statements, StripText(current)),
                         current_statement |-> <<>>, in_procedure |-> FALSE]
                ELSE [st EXCEPT !.current_statement = current]

RECURSIVE SplitLines(_, _)
\* The loop `for line in lines`.
SplitLines(st, lines) ==
    IF lines = <<>> THEN st ELSE SplitLines(SplitLine(st, Head(lines)), Tail(lines))

\* The statements of a file: the loop, the remaining statement, and the filter
\* of the empty ones.
SplitStatements(lines) ==
    LET st  == SplitLines(SplitStart, lines)
        all == IF StripText(st.current_statement) # <<>>
                  THEN Append(st.statements, StripText(st.current_statement))
                  ELSE st.statements
    IN  SelectSeq(all, LAMBDA stmt : StripText(stmt) # <<>>)

\* What execute_sql_file returns when no statement raised: it has no return
\* statement.
ExecuteSqlFileResult == None

\* `if result:` on what execute_sql_file returns: None is false.
Truthy(value) == value # None

\* A loop that goes on to the next statement after a failed one.
StatementErrorSkipped(s) ==
    [s EXCEPT !.i = @ + 1, !.failed_at = IF @ = 0 THEN s.i ELSE @]

\* `except Exception as e: logger.error(...); raise` around cursor.execute.
StatementError(s) == [s EXCEPT !.pc = "raised", !.failed_at = s.i, !.raised = TRUE]

\* populate_demo_data.main() after its arguments and the SQL file were found.
InitSql ==
    /\ \E sc \in {Scenario(BaseConfig, Kinds)}, t \in StartTimes : Started(sc, NoSeed, t)
    /\ NoLoader
    /\ \E lines \in SqlFiles :
          script = [pc |-> "connect", lines |-> lines, statements |-> <<>>, i |-> 0,
                    executed |-> <<>>, failed_at |-> 0, called |-> FALSE,
                    raised |-> FALSE, result |-> None, conn |-> None,
                    exit_status |-> None]

\* snowflake.connector.connect(**conn_params) returns a connection or raises.
ConnectToSnowflake ==
    /\ script.pc = "connect"
    /\ \E connects \in BOOLEAN :
          script' = IF connects
                       THEN [script EXCEPT !.pc = "split", !.conn = "open"]
                       ELSE [script EXCEPT !.pc = "raised"]
    /\ UNCHANGED <<config, generators, random_seed, rng, equipment_state, now, pc, kind,
                   batch_size, i, records, local, genlog, generated, run, first_output,
                   app, loader>>

\* execute_sql_file up to the execution loop: the file is read and split and
\* connection.cursor() returns a cursor or raises.
SplitFile ==
    /\ script.pc = "split"
    /\ \E cursor \in BOOLEAN :
          script' = [script EXCEPT !.called = TRUE,
                                   !.statements = SplitStatements(script.lines),
                                   !.i = 1,
                                   !.pc = IF cursor THEN "execute" ELSE "raised",
                                   !.raised = ~cursor]
    /\ UNCHANGED <<config, generators, random_seed, rng, equipment_state, now, pc, kind,
                   batch_size, i, records, local, genlog, generated, run, first_output,
                   app, loader>>

\* cursor.execute(statement) of the next statement returns or raises.
ExecuteStatement ==
    /\ script.pc = "execute"
    /\ script.i <= Len(script.statements)
    /\ \E executes \in BOOLEAN :
          script' = IF executes
                       THEN [script EXCEPT !.executed =
                                               Append(@, script.statements[script.i]),
                                           !.i = @ + 1]
                       ELSE StatementError(script)
    /\ UNCHANGED <<config, generators, random_seed, rng, equipment_state, now, pc, kind,
                   batch_size, i, records, local, genlog, generated, run, first_output,
                   app, loader>>

\* After the last statement: cursor.close(), and the function ends.
ReturnFromFile ==
    /\ script.pc = "execute"
    /\ script.i > Len(script.statements)
    /\ script' = [script EXCEPT !.pc = "returned", !.result = ExecuteSqlFileResult]
    /\ UNCHANGED <<config, generators, random_seed, rng, equipment_state, now, pc, kind,
                   batch_size, i, records, local, genlog, generated, run, first_output,
                   app, loader>>

\* main() after execute_sql_file returned: conn.close() and `if result:`; the
\* function ends (status 0) or calls sys.exit(1).
ReportResult ==
    /\ script.pc = "returned"
    /\ script' = [script EXCEPT !.pc = "exited", !.conn = "closed",
                                !.exit_status = IF Truthy(script.result) THEN 0 ELSE 1]
    /\ UNCHANGED <<config, generators, random_seed, rng, equipment_state, now, pc, kind,
                   batch_size, i, records, local, genlog, generated, run, first_output,
                   app, loader>>

\* main()'s `except Exception as e: print(...); sys.exit(1)`.
ReportException ==
    /\ script.pc = "raised"
    /\ script' = [script EXCEPT !.pc = "exited", !.exit_status = 1]
    /\ UNCHANGED <<config, generators, random_seed, rng, equipment_state, now, pc, kind,
                   batch_size, i, records, local, genlog, generated, run, first_output,
                   app, loader>>

NextSql ==
    \/ ConnectToSnowflake
    \/ SplitFile
    \/ ExecuteStatement
    \/ ReturnFromFile
    \/ ReportResult
    \/ ReportException

\* populate_demo_data on every SQL file.
SpecSql == InitSql /\ [][NextSql]_vars

Next ==
    \/ StartBatch
    \/ ReturnBatch
    \/ TakeBatch
    \/ SensorNext
    \/ ProductionNext
    \/ QualityNext

Spec == Init /\ [][Next]_vars

\* ------------------------------------------------------------ properties
\* The records of the running or returned generate_batch call, by generator.
SensorReadings == IF kind = "sensor" THEN records ELSE <<>>

ProductionEventRecords == IF kind = "production" THEN records ELSE <<>>

QualityTestResults == IF kind = "quality" THEN records ELSE <<>>

\* The configured equipment with the given id.
EquipmentOf(id) ==
    config.equipment[CHOOSE k \in 1..Len(config.equipment) :
                        config.equipment[k].equipment_id = id]

\* The upper clamp bounds as the code computes them.
TemperatureCeiling(e) == Max(15 * SCALE, MulFix(e.max_temperature, 1200))

PressureCeiling(e) == Max(0, MulFix(e.max_pressure, 1100))

SpeedCeiling(e) == Max(0, e.max_speed)

\* C1, as stated: the temperature of every SensorReading is at least 15 and at
\* most 1.2 x max_temperature of its equipment.
C1_TemperatureWithinStatedBounds ==
    \A k \in 1..Len(SensorReadings) :
        LET r == SensorReadings[k]
            e == EquipmentOf(r.equipment_id)
        IN  /\ 15 * SCALE <= r.temperature
            /\ r.temperature <= MulFix(e.max_temperature, 1200)

\* C1, amended: the temperature of every SensorReading is at least 15 and at
\* most max(15, 1.2 x max_temperature) rounded to two decimals, and the
\* temperature before rounding is at most max(15, 1.2 x max_temperature).
C1_TemperatureWithinClamp ==
    /\ \A k \in 1..Len(SensorReadings) :
          LET r == SensorReadings[k]
              e == EquipmentOf(r.equipment_id)
          IN  /\ 15 * SCALE <= r.temperature
              /\ r.temperature <= PyRound(TemperatureCeiling(e), 2)
    /\ pc = "reading" =>
          /\ 15 * SCALE <= local.temperature
          /\ local.temperature <= TemperatureCeiling(local.equipment)

\* A reading clamped from above whose temperature exceeds 1.2 x max_temperature.
C1_ReadingAtCeiling ==
    \E k \in 1..Len(SensorReadings) :
        LET r == SensorReadings[k]
            e == EquipmentOf(r.equipment_id)
        IN  /\ r.temperature = PyRound(TemperatureCeiling(e), 2)
            /\ r.temperature > MulFix(e.max_temperature, 1200)

\* C2, as stated: every SensorReading has pressure in [0, 1.1 x max_pressure]
\* and speed_rpm in [0, max_speed] of its equipment.
C2_PressureSpeedWithinStatedBounds ==
    \A k \in 1..Len(SensorReadings) :
        LET r == SensorReadings[k]
            e == EquipmentOf(r.equipment_id)
        IN  /\ 0 <= r.pressure /\ r.pressure <= MulFix(e.max_pressure, 1100)
            /\ 0 <= r.speed_rpm /\ r.speed_rpm <= e.max_speed

\* C2, amended: every SensorReading has pressure between 0 and
\* max(0, 1.1 x max_pressure) rounded to two decimals, and speed_rpm between 0
\* and max(0, max_speed) rounded to one decimal; before rounding they are at
\* most max(0, 1.1 x max_pressure) and max(0, max_speed).
C2_PressureSpeedWithinClamp ==
    /\ \A k \in 1..Len(SensorReadings) :
          LET r == SensorReadings[k]
              e == EquipmentOf(r.equipment_id)
          IN  /\ 0 <= r.pressure /\ r.pressure <= PyRound(PressureCeiling(e), 2)
              /\ 0 <= r.speed_rpm /\ r.speed_rpm <= PyRound(SpeedCeiling(e), 1)
    /\ pc = "reading" =>
          /\ 0 <= local.pressure
          /\ local.pressure <= PressureCeiling(local.equipment)
          /\ 0 <= local.speed_rpm
          /\ local.speed_rpm <= SpeedCeiling(local.equipment)

\* A reading whose speed was clamped from above and rounded beyond max_speed.
C2_ReadingAtCeiling ==
    \E k \in 1..Len(SensorReadings) :
        LET r == SensorReadings[k]
            e == EquipmentOf(r.equipment_id)
        IN  /\ r.speed_rpm = PyRound(SpeedCeiling(e), 1)
            /\ r.speed_rpm > e.max_speed

\* C3: every SensorReading has efficiency_percent in [30, 100].
C3_EfficiencyWithinBounds ==
    \A k \in 1..Len(SensorReadings) :
        /\ 30 * SCALE <= SensorReadings[k].efficiency_percent
        /\ SensorReadings[k].efficiency_percent <= 100 * SCALE

\* A second reading at the upper bound, a first at the lower, with degradation
\* accumulated in between.
C3_ReadingsAtBothBounds ==
    /\ Len(SensorReadings) = 2
    /\ SensorReadings[1].efficiency_percent = 30 * SCALE
    /\ SensorReadings[2].efficiency_percent = 100 * SCALE
    /\ \E id \in DOMAIN equipment_state :
          equipment_state[id].efficiency_degradation > 0

\* C4: a call of _update_equipment_state leaves every equipment's
\* efficiency_degradation greater than or equal to its value before the call,
\* or exactly zero; it is never negative.
C4_DegradationMonotoneOrReset ==
    /\ [](\A id \in DOMAIN equipment_state :
             equipment_state[id].efficiency_degradation >= 0)
    /\ [][pc = "update" =>
             \A id \in DOMAIN equipment_state :
                 \/ equipment_state'[id].efficiency_degradation
                       >= equipment_state[id].efficiency_degradation
                 \/ equipment_state'[id].efficiency_degradation = 0]_vars

\* An update has grown the degradation of the equipment of the second reading
\* of a batch.
C4_DegradationGrown ==
    /\ pc = "reading"
    /\ i = 1
    /\ State.efficiency_degradation > 0

\* C5: every ProductionEvent of type PRODUCTION has reject_count <=
\* units_produced and downtime_minutes = 0.
C5_ProductionRejectsWithinUnits ==
    \A k \in 1..Len(ProductionEventRecords) :
        LET r == ProductionEventRecords[k]
        IN  r.event_type = "PRODUCTION" =>
                /\ r.reject_count <= r.units_produced
                /\ r.downtime_minutes = 0

\* A PRODUCTION event all of whose units were rejected.
C5_AllUnitsRejected ==
    \E k \in 1..Len(ProductionEventRecords) :
        LET r == ProductionEventRecords[k]
        IN  /\ r.event_type = "PRODUCTION"
            /\ r.units_produced > 0
            /\ r.reject_count = r.units_produced

\* C6: every ProductionEvent not of type PRODUCTION has units_produced = 0,
\* reject_count = 0 and a downtime_minutes, as emitted, of at most the
\* configured max_duration_minutes.
C6_DowntimeWithinMaximum ==
    \A k \in 1..Len(ProductionEventRecords) :
        LET r == ProductionEventRecords[k]
        IN  r.event_type # "PRODUCTION" =>
                /\ r.units_produced = 0
                /\ r.reject_count = 0
                /\ r.downtime_minutes
                      <= config.production_events.downtime.max_duration_minutes

\* C7: every QualityTestResult with is_within_spec False has a
\* measurement_value strictly outside [specification_min, specification_max]
\* and a defect_type that is not null.
C7_FailedTestOutsideSpec ==
    \A k \in 1..Len(QualityTestResults) :
        LET r == QualityTestResults[k]
        IN  ~r.is_within_spec =>
                /\ \/ r.measurement_value < r.specification_min
                   \/ r.measurement_value > r.specification_max
                /\ r.defect_type # None

\* A failed test whose measurement the rounding moved towards the bound, to
\* less than 0.1 from it.
C7_FailedTestNearBound ==
    \E k \in 1..Len(QualityTestResults) :
        LET r == QualityTestResults[k]
        IN  /\ ~r.is_within_spec
            /\ r.specification_min - r.measurement_value > 0
            /\ r.specification_min - r.measurement_value < 100

\* C8: every QualityTestResult with is_within_spec True has a
\* measurement_value inside [specification_min, specification_max] and a null
\* defect_type.
C8_PassedTestInsideSpec ==
    \A k \in 1..Len(QualityTestResults) :
        LET r == QualityTestResults[k]
        IN  r.is_within_spec =>
                /\ r.specification_min <= r.measurement_value
                /\ r.measurement_value <= r.specification_max
                /\ r.defect_type = None

\* The second run has returned its one reading.
BothRunsReturned == run = 2 /\ pc = "returned"

\* A record without its timestamp.
Untimed(r) == [r EXCEPT !.timestamp = 0]

\* C9, as stated: two runs with the same seed, equipment and sensor parameters,
\* each producing one reading, produce records identical in every field.
C9_RunsIdentical == BothRunsReturned => records = first_output

\* C9, amended: the two records are identical in every field other than
\* timestamp.
C9_RunsIdenticalButTimestamp ==
    BothRunsReturned =>
        /\ Len(records) = 1
        /\ Len(first_output) = 1
        /\ Untimed(records[1]) = Untimed(first_output[1])

\* Both runs have returned, and their readings carry different timestamps.
C9_TwoRunsDone ==
    /\ BothRunsReturned
    /\ Len(records) = 1
    /\ Len(first_output) = 1
    /\ records[1].timestamp # first_output[1].timestamp

\* C10: generate_batch(n) of each generator returns exactly n records, in the
\* order they were generated.
C10_BatchOfRequestedSize ==
    pc = "returned" => Len(records) = batch_size /\ records = genlog

\* A returned batch of two records, the second generated after the first.
C10_BatchOfTwoReturned ==
    /\ pc = "returned"
    /\ batch_size = 2
    /\ Len(records) = 2
    /\ records[1].timestamp < records[2].timestamp

\* The production steps between the choice of the operator and the record.
InProductionEvent ==
    pc \in {"event", "volume", "rejects", "downtime", "event_return"}

\* C11: for every wall-clock hour h, _get_current_shift returns DAY_SHIFT
\* exactly when 6 <= h < 14, AFTERNOON_SHIFT exactly when 14 <= h < 22, and
\* NIGHT_SHIFT otherwise.
C11_ShiftBuckets ==
    InProductionEvent =>
        LET h == HourOf(now)
            shift == local.current_shift
        IN  /\ shift \in {"DAY_SHIFT", "AFTERNOON_SHIFT", "NIGHT_SHIFT"}
            /\ shift = "DAY_SHIFT" <=> (6 <= h /\ h < 14)
            /\ shift = "AFTERNOON_SHIFT" <=> (14 <= h /\ h < 22)
            /\ shift = "NIGHT_SHIFT" <=> (h < 6 \/ h >= 22)

\* The shift taken at 14:00:00 is the afternoon shift.
C11_AfternoonAtFourteen ==
    /\ InProductionEvent
    /\ now = 14 * 60 * 60
    /\ local.current_shift = "AFTERNOON_SHIFT"

\* The configured operators of a shift, as a set.
OperatorsOn(shift) ==
    {config.operators[k] : k \in {m \in 1..Len(config.operators) :
                                      config.operators[m].shift = shift}}

\* C15: the operator of a ProductionEvent is an operator of the current shift
\* whenever one is configured, and the first configured operator only when
\* none is.
C15_OperatorOfCurrentShift ==
    /\ InProductionEvent =>
          LET on_shift == OperatorsOn(local.current_shift)
          IN  IF on_shift # {} THEN local.operator \in on_shift
              ELSE local.operator = config.operators[1]
    /\ \A k \in 1..Len(ProductionEventRecords) :
          LET r == ProductionEventRecords[k]
              on_shift == OperatorsOn(GetCurrentShift(HourOf(r.timestamp)))
          IN  IF on_shift # {}
              THEN r.operator_id \in {op.operator_id : op \in on_shift}
              ELSE r.operator_id = config.operators[1].operator_id

\* An event of the night shift, which has no operator: the first configured
\* operator, of the day shift, was taken.
C15_FallbackOperator ==
    /\ InProductionEvent
    /\ local.current_shift = "NIGHT_SHIFT"
    /\ OperatorsOn("NIGHT_SHIFT") = {}
    /\ local.operator = config.operators[1]
    /\ Len(config.operators) = 3

\* The status of the reading being generated has been determined.
StatusDetermined == pc \in {"update", "reading"}

\* The critical and the warning condition on the values of the reading being
\* generated, before rounding.
ReadingCritical ==
    \/ local.temperature > MulFix(local.equipment.max_temperature, 950)
    \/ local.pressure > MulFix(local.equipment.max_pressure, 950)

ReadingWarning ==
    \/ local.temperature > MulFix(local.equipment.max_temperature, 850)
    \/ local.pressure > MulFix(local.equipment.max_pressure, 850)
    \/ local.vibration > 700

\* C12: a reading has status ERROR only when its temperature exceeds 0.95 x
\* max_temperature or its pressure exceeds 0.95 x max_pressure, and whenever
\* that holds the status is ERROR or MAINTENANCE.
C12_ErrorIffCritical ==
    StatusDetermined =>
        /\ local.status = "ERROR" => ReadingCritical
        /\ ReadingCritical => local.status \in {"ERROR", "MAINTENANCE"}

\* A reading with a critical temperature, a pressure below its limit, and
\* status ERROR.
C12_CriticalReading ==
    /\ StatusDetermined
    /\ local.temperature > MulFix(local.equipment.max_temperature, 950)
    /\ local.pressure <= MulFix(local.equipment.max_pressure, 950)
    /\ local.status = "ERROR"

\* C13: when the critical condition does not hold and the warning condition
\* holds, the status is MAINTENANCE or RUNNING.
C13_WarningFirstMatchWins ==
    (StatusDetermined /\ ~ReadingCritical /\ ReadingWarning) =>
        local.status \in {"MAINTENANCE", "RUNNING"}

\* The four trend fields of an equipment's state are zero.
TrendsZero(state) ==
    /\ state.temperature_trend = 0
    /\ state.pressure_trend = 0
    /\ state.vibration_trend = 0
    /\ state.efficiency_degradation = 0

\* C14: an update that changes an equipment's last_maintenance leaves its
\* four trend fields zero, and nothing but an update changes last_maintenance.
C14_ResetAllOrNothing ==
    [][\A id \in DOMAIN equipment_state :
          equipment_state'[id].last_maintenance
                # equipment_state[id].last_maintenance
              => pc = "update" /\ TrendsZero(equipment_state'[id])]_vars

\* A reset has happened in the update of the second reading of a batch.
C14_ResetAfterDrift ==
    /\ pc = "reading"
    /\ i = 1
    /\ State.last_maintenance = now
    /\ TrendsZero(State)
    /\ Len(config.equipment) = 1

\* The seconds a thread had spent in its iteration when it called time.sleep.
Elapsed(th) == th.slept_at - th.start_time

\* C16: in every iteration of each of the three loops, raising ones included,
\* the time the loop sleeps is the configured interval less the time the
\* iteration has already taken, and never negative.
C16_SleepsRemainderOfInterval ==
    \A k \in Kinds :
        threads[k].pc = "sleep" =>
            /\ threads[k].sleep_time >= 0
            /\ threads[k].sleep_time =
                   Max(0, Interval(k, config) - Elapsed(threads[k]))

\* Whether a thread is generating or uploading a batch.
InBatch(th) == th.pc \in {"generate", "upload", "connect", "put"}

\* C17: when stop() closes the uploader's connection, every generation loop
\* has finished the batch it was working on: no loop is generating or inside
\* an upload in the step that closes the connection.
C17_ClosesAfterBatchesFinish ==
    [][main.pc = "close" /\ main'.pc # "close" =>
          \A k \in Kinds : ~InBatch(threads[k])]_vars

\* C18: an upload called with an empty batch returns True, and its step
\* creates no file, opens no connection and puts nothing on the stage.
C18_EmptyBatchIsSuccess ==
    [][\A k \in Kinds :
          /\ threads[k].pc = "upload"
          /\ threads[k].data_batch = <<>>
          /\ threads'[k].pc # "upload"
          => /\ threads'[k].pc \notin {"connect", "put"}
             /\ uploader' = uploader
             /\ threads'[k].success = TRUE]_vars

\* The quality loop, whose batch size is 2 \div 3 = 0, has had its empty
\* batch uploaded before any connection was opened.
C18_EmptyBatchUploaded ==
    /\ threads["quality"].pc = "sleep"
    /\ threads["quality"].data_batch = <<>>
    /\ ~threads["quality"].raised
    /\ threads["quality"].success = TRUE
    /\ uploader.connection = None
    /\ uploader.files = 0

\* The upload of the thread's batch has returned False.
UploadFailed(th) ==
    /\ th.data_batch # <<>>
    /\ th.pc \notin {"upload", "connect", "put"}
    /\ th.success = FALSE

\* The thread's sleep or generation ends after the last second of the clock.
BeyondClock(th) == th.pc \in {"sleep", "generate"} /\ th.until > MaxClock

\* C19: the step in which an upload fails changes no other loop, and while the
\* application is running the loop whose upload failed comes to upload a
\* newly generated batch (unless the application is stopped first or the
\* loop's next tick lies after the last second of the clock).
C19_FailedUploadRetried ==
    /\ [][\A k \in Kinds :
            ~UploadFailed(threads[k]) /\ UploadFailed(threads'[k]) =>
                \A j \in Kinds \ {k} : threads'[j] = threads[j]]_vars
    /\ \A k \in Kinds :
          (running /\ UploadFailed(threads[k])) ~>
              (threads[k].pc = "upload" \/ ~running \/ BeyondClock(threads[k]))

\* The sensor loop is uploading the batch of a later iteration while no
\* connection has ever been opened: its first upload failed to connect.
C19_SecondAttemptAfterFailure ==
    /\ running
    /\ threads["sensor"].pc = "upload"
    /\ threads["sensor"].start_time > 0
    /\ uploader.connection = None

\* A configuration with a missing section or key, or with an empty operator
\* or inspector list.
MalformedConfig(cfg) ==
    \/ ~ValidateConfig(cfg)
    \/ ~InitializeGenerators(cfg)
    \/ ~(SignalNames \subseteq DOMAIN cfg.sensor_data)
    \/ cfg.operators = <<>>
    \/ cfg.inspectors = <<>>

\* C20: with a malformed configuration initialization fails: no generation
\* loop is ever started, and so none raises on the configuration.
C20_MalformedFailsInitialization ==
    MalformedConfig(config) =>
        \A k \in Kinds : threads[k].pc = "unstarted" /\ ~threads[k].raised

\* What a piece of the text stands for under the environment.
PieceValue(piece, environ) ==
    IF ~piece.ref THEN piece.text
    ELSE IF environ[piece.name] # Unset THEN environ[piece.name]
    ELSE piece.default

\* A reference to an unset variable without a default.
Unresolved(piece, environ) ==
    piece.ref /\ environ[piece.name] = Unset /\ ~piece.has_default

\* C21: substitution raises exactly when the text holds a reference to an
\* unset variable without a default, and then yields no text; otherwise its
\* result is the text with every reference replaced by the variable's value
\* when it is set, and by the (possibly empty) default when it is not.
C21_SubstitutesEveryReference ==
    LET ps == loader.pieces
        missing == \E k \in 1..Len(ps) : Unresolved(ps[k], loader.environ)
    IN  /\ loader.pc = "raised" => missing /\ loader.result = <<>>
        /\ loader.pc = "substituted" =>
              /\ ~missing
              /\ loader.result =
                    Concat([k \in 1..Len(ps) |->
                               [text |-> PieceValue(ps[k], loader.environ)]])

\* A text in which a set variable with a default, an unset one with an empty
\* default and a literal have been substituted.
C21_ValueAndDefaultUsed ==
    /\ loader.pc = "substituted"
    /\ loader.pieces = <<Ref(<<"B", "2">>, <<"d">>), Ref(<<"A">>, <<>>), Lit("}")>>
    /\ loader.environ[<<"A">>] = Unset
    /\ loader.result = <<"w", "}">>

\* C22: the trend states change only in the update step of a sensor reading,
\* after the reading's values were computed (the step leaves them as they
\* are), and the step changes the state of the reading's equipment alone;
\* no step of production or quality generation changes a trend state.
C22_TrendStateFrame ==
    [][equipment_state' # equipment_state =>
          /\ kind = "sensor"
          /\ pc = "update" /\ pc' = "reading"
          /\ local' = local
          /\ DOMAIN equipment_state' = DOMAIN equipment_state
          /\ \A id \in DOMAIN equipment_state \ {local.equipment.equipment_id} :
                equipment_state'[id] = equipment_state[id]]_vars

\* The first reading of a batch for two equipment has been generated: the
\* trends of its equipment have moved, those of the other equipment have not.
C22_OneStateUpdated ==
    /\ kind = "sensor" /\ pc = "reading" /\ records = <<>>
    /\ Len(config.equipment) = 2
    /\ ~TrendsZero(State)
    /\ \E id \in DOMAIN equipment_state :
          id # local.equipment.equipment_id /\ TrendsZero(equipment_state[id])

\* The configured test of the given type.
TestOf(type) ==
    config.quality_control.tests[
        CHOOSE k \in 1..Len(config.quality_control.tests) :
            config.quality_control.tests[k].test_type = type]

\* C23: a test configured with failure probability 0 yields only results
\* with is_within_spec True, whatever random.random() draws in [0, 1), and a
\* test with failure probability 1 only results with is_within_spec False.
C23_CertainOutcomes ==
    \A k \in 1..Len(QualityTestResults) :
        LET r == QualityTestResults[k]
            failure_prob == TestOf(r.test_type).failure_probability
        IN  /\ failure_prob = 0 => r.is_within_spec
            /\ failure_prob = SCALE => ~r.is_within_spec

\* Whether a loop has been started or anything generated or uploaded.
AnythingStarted ==
    \/ running
    \/ \E k \in Kinds : threads[k].pc # "unstarted"
    \/ uploader.connection # None
    \/ uploader.files > 0
    \/ uploader.staged > 0

\* C24: a loop is started, and a batch generated or uploaded, only when the
\* configuration validated, the connection test returned True and the three
\* generators were constructed; in every other case start() has returned
\* False and the process exits with status 1.
C24_NothingBeforeInitialization ==
    LET initialized ==
            /\ ValidateConfig(config)
            /\ main.connected
            /\ InitializeGenerators(config)
            /\ generators = Kinds
    IN  /\ AnythingStarted => initialized
        /\ main.pc # "new" /\ ~initialized =>
              main.pc = "failed" /\ main.exit_status = 1 /\ ~AnythingStarted

\* With a complete configuration the connection test has returned False and
\* the process exits with status 1.
C24_ConnectionTestFailed ==
    /\ main.pc = "failed"
    /\ main.exit_status = 1
    /\ ValidateConfig(config) /\ InitializeGenerators(config)
    /\ ~main.connected

\* C26: the uploader never creates a connection while the one it holds is
\* open, so no open connection is ever left without a reference to it.
C26_OneConnection ==
    /\ uploader.unreferenced = 0
    /\ \A k \in Kinds : threads[k].conn # "lost_open"

\* C25: once the signal handler's stop() has returned, the uploader holds no
\* open connection, whatever the loops do afterwards and through the second
\* stop() that start() calls.
C25_ClosedAfterStop ==
    main.stops = 2 => uploader.connection # "open"

\* The thread's current step ends after the last second of the clock.
ClockEnds(th) == th.pc \in {"sleep", "generate", "put"} /\ th.until > MaxClock

\* C27: a loop ends only when running is false; a loop whose iteration raised
\* comes to generate again while the application is running; and once
\* running is false every loop ends (each unless its step ends after the
\* last second of the clock).
C27_LoopsRunUntilStopped ==
    /\ [][\A k \in Kinds :
            threads'[k].pc = "done" /\ threads[k].pc # "done" => ~running]_vars
    /\ \A k \in Kinds :
          (running /\ threads[k].raised) ~>
              (threads[k].pc = "generate" \/ ~running \/ ClockEnds(threads[k]))
    /\ \A k \in Kinds :
          (~running /\ IsAlive(threads[k])) ~>
              (threads[k].pc = "done" \/ ClockEnds(threads[k]))

\* Without operators the production loop, whose first iteration raised, is
\* generating again.
C27_GeneratingAfterException ==
    /\ running
    /\ config.operators = <<>>
    /\ threads["production"].pc = "generate"
    /\ threads["production"].start_time > 0

\* The splitting with a body that opens and closes on one line: the line
\* closes the body it opens when a second "$$" followed by ";" comes after
\* the first.
ClosesOnSameLine(line) ==
    \E p \in 1..Len(line), q \in 1..Len(line) - 1 :
        p < q /\ line[p] = "$$" /\ line[q] = "$$" /\ line[q + 1] = ";"

\* One line of the splitting that keeps every $$ body whole and ends a
\* statement at every other line ending with ";".
ExpectedLine(st, line) ==
    IF ~st.in_procedure /\ (IsComment(line) \/ Strip(line) = <<>>)
       THEN st
       ELSE LET current == Append(st.current_statement, line)
                ends == IF st.in_procedure THEN HasClosing(line)
                        ELSE IF HasDelimiter(line) THEN ClosesOnSameLine(line)
                        ELSE EndsStatement(line)
                opens == ~st.in_procedure /\ HasDelimiter(line) /\ ~ends
            IN  IF ends
                   THEN [statements |-> Append(st.statements, StripText(current)),
                         current_statement |-> <<>>, in_procedure |-> FALSE]
                   ELSE [st EXCEPT !.current_statement = current,
                                   !.in_procedure = @ \/ opens]

RECURSIVE ExpectedLines(_, _)
ExpectedLines(st, lines) ==
    IF lines = <<>> THEN st
    ELSE ExpectedLines(ExpectedLine(st, Head(lines)), Tail(lines))

\* The statements of a file, each `$$ ... $$;` body whole and every other
\* statement on its own.
ExpectedStatements(lines) ==
    LET st == ExpectedLines(SplitStart, lines)
    IN  IF StripText(st.current_statement) # <<>>
           THEN Append(st.statements, StripText(st.current_statement))
           ELSE st.statements

\* C28: populate_demo_data, once execute_sql_file was called, ends with
\* status 0 exactly when execute_sql_file executed every statement without
\* raising, and with status 1 exactly when it raised.
C28_SuccessReportedWhenExecuted ==
    script.pc = "exited" /\ script.called =>
        /\ script.exit_status = 0 <=>
               (~script.raised /\ script.executed = script.statements)
        /\ script.exit_status = 1 <=> script.raised

\* C29: the statements execute_sql_file executes are the file's statements
\* split at every ";" ending a line outside a $$ body, with every
\* `$$ ... $$;` body whole, also when the body opens and closes on one line.
C29_SplitsOutsideBodies ==
    script.called => script.statements = ExpectedStatements(script.lines)

\* C30: the statements executed are the first statements of the file in
\* order; after a failure at statement i exactly i - 1 statements were
\* executed and no statement is executed any more.
C30_StopsAtFirstFailure ==
    /\ script.pc # "idle" =>
          /\ Len(script.executed) <= Len(script.statements)
          /\ script.executed = SubSeq(script.statements, 1, Len(script.executed))
          /\ script.failed_at # 0 => Len(script.executed) = script.failed_at - 1
    /\ [][script.pc # "idle" /\ script.failed_at # 0 =>
              script'.executed = script.executed]_vars

\* The second of three statements failed after the first was executed.
C30_SecondOfThreeFailed ==
    /\ script.pc = "exited"
    /\ Len(script.statements) = 3
    /\ script.failed_at = 2
    /\ Len(script.executed) = 1

====
